---- MODULE Spec2Model ----
(***************************************************************************)
(* Model of the roast generation backend (backend/main.py generate_roast   *)
(* and the collaborators it drives: RoastRequest, SecurityManager,         *)
(* AniListClient, TimedCache, parse_roast_response, RoastCleaner,          *)
(* AnimeStats).                                                            *)
(*                                                                         *)
(* Text is modelled as a sequence of lexemes.  A lexeme is either a        *)
(* maximal run of word characters (a word or a number, written as the      *)
(* string itself) or a single non-word character (" ", "%", ".", ...).     *)
(* The length of a text is the sum of the lengths of its lexemes.          *)
(***************************************************************************)
EXTENDS Integers, Sequences, FiniteSets, TLC

(***************************************************************************)
(* Bounds of the model.                                                    *)
(***************************************************************************)
\* number of request handlers
NumReq == 3
\* number of handlers that receive a request in the specifications that
\* follow one request along its path; the other handlers stay idle
NumClients == 2
\* number of times the wall clock is advanced
MaxTicks == 2

(***************************************************************************)
(* Program constants.                                                      *)
(***************************************************************************)
MAX_ROAST_RETRIES == 2
MAX_ANIME_NAME_LENGTH == 100
TTL_SECONDS == 3600
MAX_SIZE == 1000
CLEANUP_INTERVAL == 300
SECONDS_PER_DAY == 86400
DEFAULT_STAT == 50
STAT_MIN == 0
STAT_MAX == 100

StatKeys ==
  {"horniness_level", "plot_armor_thickness", "filler_hell",
   "power_creep", "cringe_factor", "fan_toxicity"}

\* DEFAULT_STATS / _get_default_stats()
DefaultStats == [k \in StatKeys |-> DEFAULT_STAT]

(***************************************************************************)
(* Lexemes.                                                                *)
(***************************************************************************)
Whitespace == {" ", "\t", "\n"}

Numbers ==
  {"0", "1", "2", "3", "4", "5", "6", "7", "8", "9", "10", "12", "15", "50",
   "100", "150"}

\* decimal value of a number lexeme
NumVal(t) ==
  CASE t = "0" -> 0 [] t = "1" -> 1 [] t = "2" -> 2 [] t = "3" -> 3
    [] t = "4" -> 4 [] t = "5" -> 5 [] t = "6" -> 6 [] t = "7" -> 7
    [] t = "8" -> 8 [] t = "9" -> 9
    [] t = "10" -> 10 [] t = "12" -> 12 [] t = "15" -> 15 [] t = "50" -> 50
    [] t = "100" -> 100 [] t = "150" -> 150

\* a name of 101 word characters
LongWord ==
  "aaaaaaaaaaaaaaaaaaaaaaaaaaaaaaaaaaaaaaaaaaaaaaaaaa" \o
  "aaaaaaaaaaaaaaaaaaaaaaaaaaaaaaaaaaaaaaaaaaaaaaaaaaa"

\* a name of exactly 100 word characters
FullWord ==
  "aaaaaaaaaaaaaaaaaaaaaaaaaaaaaaaaaaaaaaaaaaaaaaaaaa" \o
  "aaaaaaaaaaaaaaaaaaaaaaaaaaaaaaaaaaaaaaaaaaaaaaaaaa"

\* word lexemes (runs of \w characters) that are not numbers
Words ==
  {"Naruto", "Bleach", "Fate", "stay", "night", "a", "x", "b",
   "DROP", "drop", "OR", "script", "javascript", "alert", "onload",
   LongWord, FullWord,
   "ROAST", "STATS", "foo", "bar", "reviews", "REVIEWS", "review",
   "glorious", "Glorious", "percent", "out", "of", "scored", "rating",
   "according", "to", "the", "data", "statistics", "show", "indicates",
   "coming", "Coming", "in", "at", "an", "earth", "shattering", "exactly", "Right",
   "SOMEONE", "someone", "s", "oops", "high",
   "pacing", "Pacing", "is", "was", "feels", "like", "terrible", "slow",
   "slowly", "characters", "ending", "fell", "off", "mid", "cope", "peaked",
   "rated", "and", "some", "might", "say", "isn", "t", "for", "everyone"}
  \cup StatKeys

IsWordLexeme(t) == t \in Words \cup Numbers

\* str.lower() of a lexeme (re.IGNORECASE compares case-folded text)
Fold(t) ==
  CASE t = "DROP" -> "drop" [] t = "OR" -> "or" [] t = "REVIEWS" -> "reviews"
    [] t = "Glorious" -> "glorious" [] t = "Right" -> "right"
    [] t = "SOMEONE" -> "someone" [] t = "ROAST" -> "roast"
    [] t = "STATS" -> "stats" [] t = "Naruto" -> "naruto"
    [] t = "Bleach" -> "bleach" [] t = "Fate" -> "fate"
    [] t = "Coming" -> "coming" [] t = "A" -> "a" [] t = "Boring" -> "boring"
    [] t = "Great" -> "great" [] t = "It" -> "it" [] t = "So" -> "so"
    [] t = "The" -> "the" [] t = "Too" -> "too"
    [] t = "Pacing" -> "pacing"
    [] OTHER -> t

RECURSIVE TextLen(_)
\* len(text)
TextLen(s) == IF s = <<>> THEN 0 ELSE Len(Head(s)) + TextLen(Tail(s))

RECURSIVE LStrip(_)
LStrip(s) ==
  IF s # <<>> /\ Head(s) \in Whitespace THEN LStrip(Tail(s)) ELSE s

RECURSIVE RStrip(_)
RStrip(s) ==
  IF s # <<>> /\ s[Len(s)] \in Whitespace
    THEN RStrip(SubSeq(s, 1, Len(s) - 1)) ELSE s

\* str.strip()
Strip(s) == RStrip(LStrip(s))

\* s[i] or a non-word placeholder outside the text
At(s, i) == IF i >= 1 /\ i <= Len(s) THEN s[i] ELSE ""

\* the lexemes s[i..j-1] are all whitespace (\s*)
AllSpace(s, i, j) == \A k \in i..(j - 1) : At(s, k) \in Whitespace

\* the literal lit (a sequence of lexemes) occurs at position i
LitAt(s, i, lit, ignorecase) ==
  /\ i >= 1
  /\ i + Len(lit) - 1 <= Len(s)
  /\ \A k \in 1..Len(lit) :
       IF ignorecase THEN Fold(s[i + k - 1]) = Fold(lit[k])
                     ELSE s[i + k - 1] = lit[k]

(***************************************************************************)
(* Request model and name validation                                       *)
(* (models.py RoastRequest, security.py SecurityManager).                  *)
(***************************************************************************)
SqlKeywords ==
  {"select", "insert", "update", "delete", "drop", "create", "alter"}

\* word lexemes in which "on" is followed by at least one more word character
OnWords == {"onload"}

\* characters of ANIME_NAME_PATTERN besides \w
AllowedPunct ==
  {" ", "'", "-", ":", "!", "?", ".", ";", ",", "(", ")", "/",
   "[", "]", "{", "}", "\""}

\* r";\s*(SELECT|INSERT|UPDATE|DELETE|DROP|CREATE|ALTER)"
ForbiddenSqlAfterSemicolon(s) ==
  \E i \in 1..Len(s) : \E j \in (i + 1)..Len(s) :
    /\ s[i] = ";"
    /\ AllSpace(s, i + 1, j)
    /\ Fold(s[j]) \in SqlKeywords

\* r"'\s*(OR|AND)\s*['\"\d]"
ForbiddenQuoteInjection(s) ==
  \E i \in 1..Len(s) : \E j \in (i + 1)..Len(s) : \E k \in (j + 1)..Len(s) :
    /\ s[i] = "'"
    /\ AllSpace(s, i + 1, j)
    /\ Fold(s[j]) \in {"or", "and"}
    /\ AllSpace(s, j + 1, k)
    /\ s[k] \in {"'", "\""} \cup Numbers

\* r"--\s*$"
ForbiddenTrailingComment(s) ==
  \E i \in 1..Len(s) :
    /\ s[i] = "-"
    /\ At(s, i + 1) = "-"
    /\ AllSpace(s, i + 2, Len(s) + 1)

\* r"/\*.*\*/"
ForbiddenBlockComment(s) ==
  \E i \in 1..Len(s) : \E j \in (i + 2)..Len(s) :
    /\ s[i] = "/" /\ At(s, i + 1) = "*"
    /\ s[j] = "*" /\ At(s, j + 1) = "/"
    /\ \A k \in (i + 2)..(j - 1) : s[k] # "\n"

\* r"<script[^>]*>"
ForbiddenScriptTag(s) ==
  \E i \in 1..Len(s) : \E j \in (i + 2)..Len(s) :
    /\ s[i] = "<"
    /\ Fold(At(s, i + 1)) = "script"
    /\ s[j] = ">"

\* r"javascript:"
ForbiddenJavascriptUrl(s) ==
  \E i \in 1..Len(s) : Fold(s[i]) = "javascript" /\ At(s, i + 1) = ":"

\* r"on\w+\s*="
ForbiddenEventHandler(s) ==
  \E i \in 1..Len(s) : \E j \in (i + 1)..Len(s) :
    /\ Fold(s[i]) \in OnWords
    /\ AllSpace(s, i + 1, j)
    /\ s[j] = "="

\* FORBIDDEN_PATTERNS, searched with re.IGNORECASE
MatchesForbidden(s) ==
  \/ ForbiddenSqlAfterSemicolon(s)
  \/ ForbiddenQuoteInjection(s)
  \/ ForbiddenTrailingComment(s)
  \/ ForbiddenBlockComment(s)
  \/ ForbiddenScriptTag(s)
  \/ ForbiddenJavascriptUrl(s)
  \/ ForbiddenEventHandler(s)

\* ANIME_NAME_PATTERN.match(name)
MatchesNamePattern(s) ==
  /\ TextLen(s) >= 1
  /\ TextLen(s) <= 100
  /\ \A i \in 1..Len(s) : IsWordLexeme(s[i]) \/ s[i] \in AllowedPunct

\* RoastRequest: Field(min_length=1, max_length=100) and the validator
RoastRequestValid(raw) ==
  /\ TextLen(raw) >= 1
  /\ TextLen(raw) <= MAX_ANIME_NAME_LENGTH
  /\ Strip(raw) # <<>>

\* validate_anime_name that accepts every name
validate_any_name(name) == "ok"

\* SecurityManager.validate_anime_name: the detail of the HTTPException(400)
\* it raises, or "ok" when it returns name.strip()
validate_anime_name(name) ==
  IF Strip(name) = <<>> THEN "Anime name cannot be empty"
  ELSE IF TextLen(Strip(name)) > 100 THEN "Anime name too long"
  ELSE IF MatchesForbidden(Strip(name)) THEN "Invalid characters in anime name"
  ELSE IF ~MatchesNamePattern(Strip(name))
    THEN "Anime name contains invalid characters"
  ELSE "ok"

(***************************************************************************)
(* RoastCleaner (roast_cleaner.py).  A pattern is named by a string;       *)
(* MatchLen gives the number of lexemes the pattern matches at a position  *)
(* of the text, 0 when it does not match there.                            *)
(***************************************************************************)
\* \b between the lexemes s[i-1] and s[i]
WordBoundary(s, i) == IsWordLexeme(At(s, i - 1)) # IsWordLexeme(At(s, i))

RECURSIVE DigitsEnd(_, _)
\* \d+ is greedy: the position after the run of number lexemes starting at i
DigitsEnd(s, i) ==
  IF At(s, i) \in Numbers THEN DigitsEnd(s, i + 1) ELSE i

RECURSIVE SpaceEnd(_, _)
\* the position after the run of whitespace starting at i
SpaceEnd(s, i) ==
  IF At(s, i) \in Whitespace THEN SpaceEnd(s, i + 1) ELSE i

\* \b lit \b, the number of lexemes matched
LitLen(s, i, lit, ignorecase) ==
  IF /\ WordBoundary(s, i)
     /\ LitAt(s, i, lit, ignorecase)
     /\ WordBoundary(s, i + Len(lit))
    THEN Len(lit) ELSE 0

\* \b\d+ reviews?\b, preceded by the literal prefix pre
ReviewCountLen(s, i, pre, ignorecase) ==
  LET d == i + Len(pre)
      e == DigitsEnd(s, d)
      w == At(s, e + 1)
  IN IF /\ WordBoundary(s, i)
        /\ (pre = <<>> \/ LitAt(s, i, pre, ignorecase))
        /\ e > d
        /\ At(s, e) = " "
        /\ (IF ignorecase THEN Fold(w) ELSE w) \in {"review", "reviews"}
        /\ WordBoundary(s, e + 2)
       THEN e + 2 - i ELSE 0

\* \b pre \d+ , the literal prefix followed by a greedy run of digits
PrefixDigitsLen(s, i, pre, ignorecase) ==
  LET d == i + Len(pre)
      e == DigitsEnd(s, d)
  IN IF WordBoundary(s, i) /\ LitAt(s, i, pre, ignorecase) /\ e > d
       THEN e - i ELSE 0

Punct == {".", ",", "!", "?"}

RECURSIVE SomeoneEnd(_, _)
\* [\'s]* : the position after the run of ' and s lexemes starting at i
SomeoneEnd(s, i) ==
  IF At(s, i) \in {"'", "s"} THEN SomeoneEnd(s, i + 1) ELSE i

RECURSIVE LastBoundary(_, _, _)
\* backtracking of [\'s]*\b : the last position in lo..hi at a word boundary
LastBoundary(s, lo, hi) ==
  IF hi < lo THEN 0
  ELSE IF WordBoundary(s, hi) THEN hi
  ELSE LastBoundary(s, lo, hi - 1)

MatchLen(p, s, i) ==
  CASE p = "pct" ->              \* \b\d+%
         LET e == DigitsEnd(s, i)
         IN IF WordBoundary(s, i) /\ e > i /\ At(s, e) = "%"
              THEN e + 1 - i ELSE 0
    [] p = "n_percent" ->        \* \b\d+ percent
         LET e == DigitsEnd(s, i)
         IN IF /\ WordBoundary(s, i) /\ e > i
               /\ At(s, e) = " " /\ At(s, e + 1) = "percent"
              THEN e + 2 - i ELSE 0
    [] p = "out_of_reviews" ->   \* \bout of \d+ reviews?\b  (IGNORECASE)
         ReviewCountLen(s, i, <<"out", " ", "of", " ">>, TRUE)
    [] p = "n_reviews" ->        \* \b\d+ reviews?\b
         ReviewCountLen(s, i, <<>>, FALSE)
    [] p = "n_reviews_i" ->      \* \b\d+ reviews?\b  (IGNORECASE)
         ReviewCountLen(s, i, <<>>, TRUE)
    [] p = "decimal_score" ->    \* \b\d+\.\d+/10\b
         LET e == DigitsEnd(s, i)
             f == DigitsEnd(s, e + 1)
         IN IF /\ WordBoundary(s, i) /\ e > i
               /\ At(s, e) = "." /\ f > e + 1
               /\ At(s, f) = "/" /\ At(s, f + 1) = "10"
               /\ WordBoundary(s, f + 2)
              THEN f + 2 - i ELSE 0
    [] p = "scored" ->           \* \bscored \d+
         PrefixDigitsLen(s, i, <<"scored", " ">>, FALSE)
    [] p = "rating_of" ->        \* \brating of \d+  (IGNORECASE)
         PrefixDigitsLen(s, i, <<"rating", " ", "of", " ">>, TRUE)
    [] p = "according" ->        \* \baccording to (the )?data\b
         LET long == LitLen(s, i, <<"according", " ", "to", " ", "the", " ",
                                    "data">>, TRUE)
         IN IF long > 0 THEN long
            ELSE LitLen(s, i, <<"according", " ", "to", " ", "data">>, TRUE)
    [] p = "statistics_show" ->  \* \bstatistics show\b
         LitLen(s, i, <<"statistics", " ", "show">>, TRUE)
    [] p = "data_indicates" ->   \* \bdata indicates\b
         LitLen(s, i, <<"data", " ", "indicates">>, TRUE)
    [] p = "coming_in_at" ->     \* \bcoming in at\b
         LitLen(s, i, <<"coming", " ", "in", " ", "at">>, TRUE)
    [] p = "an_earth" ->         \* \ban earth-shattering\b
         LitLen(s, i, <<"an", " ", "earth", "-", "shattering">>, TRUE)
    [] p = "glorious" ->         \* \bglorious\b
         LitLen(s, i, <<"glorious">>, TRUE)
    [] p = "earth" ->            \* \bearth-shattering\b
         LitLen(s, i, <<"earth", "-", "shattering">>, TRUE)
    [] p = "exactly_right" ->    \* \bexactly\? Right\.\b
         LitLen(s, i, <<"exactly", "?", " ", "Right", ".">>, TRUE)
    [] p = "someone" ->          \* \bSOMEONE[\'s]*\b
         LET e == LastBoundary(s, i + 1, SomeoneEnd(s, i + 1))
         IN IF WordBoundary(s, i) /\ Fold(At(s, i)) = "someone" /\ e > 0
              THEN e - i ELSE 0
    [] p = "spaces" ->           \* \s+
         SpaceEnd(s, i) - i
    [] p = "space_punct" ->      \* \s+([.,!?])
         LET e == SpaceEnd(s, i)
         IN IF e > i /\ At(s, e) \in Punct THEN e + 1 - i ELSE 0
    [] p = "double_punct" ->     \* ([.,!?])\s*\1
         LET e == SpaceEnd(s, i + 1)
         IN IF At(s, i) \in Punct /\ At(s, e) = At(s, i)
              THEN e + 1 - i ELSE 0
    [] p = "empty_parens" ->     \* \(\s*\)
         LET e == SpaceEnd(s, i + 1)
         IN IF At(s, i) = "(" /\ At(s, e) = ")" THEN e + 1 - i ELSE 0
    [] p = "empty_brackets" ->   \* \[\s*\]
         LET e == SpaceEnd(s, i + 1)
         IN IF At(s, i) = "[" /\ At(s, e) = "]" THEN e + 1 - i ELSE 0

\* the replacement of the match of p at position i, n lexemes long
Replacement(p, s, i, n) ==
  CASE p = "someone" -> <<"someone">>
    [] p = "spaces" -> <<" ">>
    [] p = "space_punct" -> <<s[i + n - 1]>>
    [] p = "double_punct" -> <<s[i]>>
    [] OTHER -> <<>>

RECURSIVE SubFrom(_, _, _)
SubFrom(p, s, i) ==
  IF i > Len(s) THEN <<>>
  ELSE LET n == MatchLen(p, s, i)
       IN IF n > 0 THEN Replacement(p, s, i, n) \o SubFrom(p, s, i + n)
                   ELSE <<s[i]>> \o SubFrom(p, s, i + 1)

\* re.sub(pattern, replacement, s): leftmost non-overlapping matches
ReSub(p, s) == SubFrom(p, s, 1)

\* re.search(pattern, s)
ReSearch(p, s) == \E i \in 1..Len(s) : MatchLen(p, s, i) > 0

\* STATISTICAL_PATTERNS, AWKWARD_REPLACEMENTS and the clean-up passes, in the
\* order clean_roast applies them
CleanPasses ==
  <<"pct", "n_percent", "out_of_reviews", "n_reviews", "decimal_score",
    "scored", "rating_of", "according", "statistics_show", "data_indicates",
    "coming_in_at", "an_earth", "glorious",
    "earth", "glorious", "exactly_right", "someone",
    "spaces", "space_punct", "double_punct",
    "empty_parens", "empty_brackets">>

RECURSIVE ApplyPasses(_, _)
ApplyPasses(passes, s) ==
  IF passes = <<>> THEN s
  ELSE LET cleaned == CHOOSE t \in {ReSub(Head(passes), s)} : TRUE
       IN IF cleaned = <<>> THEN <<>> ELSE ApplyPasses(Tail(passes), cleaned)

\* RoastCleaner.clean_roast
clean_roast(text) ==
  LET original == CHOOSE t \in {text} : TRUE
  IN IF original = <<>> THEN <<>>
     ELSE Strip(ApplyPasses(CleanPasses, original))

\* RoastCleaner.has_statistics
has_statistics(text) ==
  \/ ReSearch("pct", text)
  \/ ReSearch("n_reviews_i", text)
  \/ ReSearch("decimal_score", text)
  \/ ReSearch("according", text)
  \/ ReSearch("statistics_show", text)
  \/ ReSearch("data_indicates", text)
  \/ ReSearch("coming_in_at", text)

(***************************************************************************)
(* parse_roast_response (main.py) and AnimeStats (models.py).              *)
(* An optional value is a sequence: <<>> is None and <<v>> is the value v. *)
(* A JSON value is a record [t |-> "int", v |-> n] or [t |-> "str", ...];  *)
(* a dict is a function from its keys.  json.loads is modelled for objects *)
(* whose members are "key": value with whole-number or one-word string     *)
(* values; every other text is a JSONDecodeError.                          *)
(***************************************************************************)
IntVal(n) == [t |-> "int", v |-> n]
StrVal == [t |-> "str", v |-> 0]

EmptyDict == [k \in {} |-> IntVal(0)]

DictPut(d, key, val) ==
  [k \in (DOMAIN d) \cup {key} |-> IF k = key THEN val ELSE d[k]]

RECURSIVE FindLit(_, _, _)
\* str.find: the first position at or after i where lit occurs, 0 if none
FindLit(s, lit, i) ==
  IF i + Len(lit) - 1 > Len(s) THEN 0
  ELSE IF LitAt(s, i, lit, FALSE) THEN i
  ELSE FindLit(s, lit, i + 1)

RECURSIVE FindLexeme(_, _, _)
\* the first position at or after i holding lexeme c, 0 if none
FindLexeme(s, c, i) ==
  IF i > Len(s) THEN 0
  ELSE IF s[i] = c THEN i
  ELSE FindLexeme(s, c, i + 1)

\* a search that finds no object
JsonMatchNone(s, i) == <<>>

RECURSIVE JsonMatch(_, _)
\* re.search(r"\{[^}]+\}", stats_part): <<first, last>> or <<>>
JsonMatch(s, i) ==
  LET open == FindLexeme(s, "{", i)
      close == FindLexeme(s, "}", open + 1)
  IN IF open = 0 \/ close = 0 THEN <<>>
     ELSE IF close >= open + 2 THEN <<open, close>>
     ELSE JsonMatch(s, open + 1)

\* a JSON value at position i: <<value, next position>> or <<>>
JsonValue(s, i) ==
  IF At(s, i) \in Numbers THEN <<IntVal(NumVal(s[i])), i + 1>>
  ELSE IF At(s, i) = "-" /\ At(s, i + 1) \in Numbers
    THEN <<IntVal(0 - NumVal(s[i + 1])), i + 2>>
  ELSE IF At(s, i) = "\"" /\ At(s, i + 1) \in Words /\ At(s, i + 2) = "\""
    THEN <<StrVal, i + 3>>
  ELSE <<>>

RECURSIVE JsonMembers(_, _, _)
\* the members of an object from position i on: <<dict>> or <<>> on error
JsonMembers(s, i, acc) ==
  LET k == SpaceEnd(s, i)
      c == SpaceEnd(s, k + 3)
      val == JsonValue(s, SpaceEnd(s, c + 1))
      e == SpaceEnd(s, val[2])
  IN IF ~(/\ At(s, k) = "\"" /\ At(s, k + 1) \in Words /\ At(s, k + 2) = "\""
          /\ At(s, c) = ":" /\ val # <<>>)
       THEN <<>>
     ELSE IF e > Len(s) THEN <<DictPut(acc, s[k + 1], val[1])>>
     ELSE IF s[e] = "," THEN JsonMembers(s, e + 1, DictPut(acc, s[k + 1], val[1]))
     ELSE <<>>

\* json.loads of the text of an object, braces included
JsonLoads(s) ==
  LET members == SubSeq(s, 2, Len(s) - 1)
  IN IF SpaceEnd(members, 1) > Len(members) THEN <<EmptyDict>>
     ELSE JsonMembers(members, 1, EmptyDict)

DefaultStatsDict == [k \in StatKeys |-> IntVal(DEFAULT_STAT)]

\* parse_roast_response: [roast, stats]
parse_roast_response(response_text) ==
  LET fallback == [roast |-> Strip(response_text), stats |-> DefaultStatsDict]
      mark == FindLit(response_text, <<"STATS", ":">>, 1)
      part0 == Strip(SubSeq(response_text, 1, mark - 1))
      stats_part == Strip(SubSeq(response_text, mark + 2, Len(response_text)))
      roast_part == IF LitAt(part0, 1, <<"ROAST", ":">>, FALSE)
                      THEN Strip(SubSeq(part0, 3, Len(part0)))
                      ELSE part0
      json_match == JsonMatch(stats_part, 1)
      stats == JsonLoads(SubSeq(stats_part, json_match[1], json_match[2]))
  IN IF mark = 0 THEN fallback
     ELSE IF json_match = <<>> THEN fallback
     ELSE IF stats = <<>> THEN fallback
     ELSE [roast |-> roast_part, stats |-> stats[1]]

\* StatGet that gives a missing key the value 0
StatGetZero(stats, key) ==
  IF key \in DOMAIN stats THEN stats[key] ELSE IntVal(STAT_MIN)

\* stats_data.get(key, 50)
StatGet(stats, key) ==
  IF key \in DOMAIN stats THEN stats[key] ELSE IntVal(DEFAULT_STAT)

\* Field(..., ge=0, le=100) of an int field
StatFieldValid(val) == val.t = "int" /\ val.v >= STAT_MIN /\ val.v <= STAT_MAX

\* AnimeStats(...) raises a ValidationError unless every field is valid
AnimeStatsValid(stats) ==
  \A k \in StatKeys : StatFieldValid(StatGet(stats, k))

\* AnimeStats(...).dict()
AnimeStats(stats) == [k \in StatKeys |-> StatGet(stats, k).v]

(***************************************************************************)
(* TimedCache (cache.py).  The dict is a sequence of entries in insertion  *)
(* order; times are seconds.                                               *)
(***************************************************************************)
RECURSIVE KeyIndex(_, _, _)
\* the position of key in the dict, 0 when key not in self._cache
KeyIndex(c, key, i) ==
  IF i > Len(c) THEN 0
  ELSE IF c[i].key = key THEN i
  ELSE KeyIndex(c, key, i + 1)

\* del self._cache[key] for the entry at position i
DeleteAt(c, i) == SubSeq(c, 1, i - 1) \o SubSeq(c, i + 1, Len(c))

\* IsExpired for which no entry has expired
IsExpiredNever(entry, t, ttl) == FALSE

\* IsExpired for which every entry has expired
IsExpiredAlways(entry, t, ttl) == t - entry.timestamp >= 0

\* datetime.now() - entry.timestamp > timedelta(seconds=self._ttl)
IsExpired(entry, t, ttl) == t - entry.timestamp > ttl

RECURSIVE DropExpired(_, _, _)
\* TimedCache._cleanup_expired
DropExpired(c, t, ttl) ==
  IF c = <<>> THEN <<>>
  ELSE IF IsExpired(Head(c), t, ttl) THEN DropExpired(Tail(c), t, ttl)
  ELSE <<Head(c)>> \o DropExpired(Tail(c), t, ttl)

\* (datetime.now() - self._last_cleanup).seconds > self._cleanup_interval
CleanupDue(t, last, interval) == ((t - last) % SECONDS_PER_DAY) > interval

\* CacheGet that returns the data of the first entry of the dict
CacheGetAny(c, last, key, t, ttl, interval) ==
  [cache |-> c, last_cleanup |-> last,
   value |-> IF c = <<>> THEN <<>> ELSE <<c[1].data>>]

\* TimedCache.get: [cache, last_cleanup, value] with value <<>> for None
CacheGet(c, last, key, t, ttl, interval) ==
  LET due == CleanupDue(t, last, interval)
      c1 == IF due THEN DropExpired(c, t, ttl) ELSE c
      last1 == IF due THEN t ELSE last
      i == KeyIndex(c1, key, 1)
  IN IF i = 0 THEN [cache |-> c1, last_cleanup |-> last1, value |-> <<>>]
     ELSE IF IsExpired(c1[i], t, ttl)
       THEN [cache |-> DeleteAt(c1, i), last_cleanup |-> last1, value |-> <<>>]
     ELSE [cache |-> [c1 EXCEPT ![i].access_count = @ + 1],
           last_cleanup |-> last1, value |-> <<c1[i].data>>]

\* (access_count, timestamp) of a precedes that of b
LruBefore(a, b) ==
  \/ a.access_count < b.access_count
  \/ a.access_count = b.access_count /\ a.timestamp < b.timestamp

\* min(self._cache.keys(), key=...): the first entry that no entry precedes
OldestIndex(c) ==
  CHOOSE i \in 1..Len(c) :
    /\ \A j \in 1..Len(c) : ~LruBefore(c[j], c[i])
    /\ \A j \in 1..(i - 1) : LruBefore(c[i], c[j])

\* Evict that deletes nothing
EvictNothing(c, max_size) == c

RECURSIVE Evict(_, _)
\* while len(self._cache) >= self._max_size: del self._cache[oldest_key]
Evict(c, max_size) ==
  IF Len(c) >= max_size /\ c # <<>> THEN Evict(DeleteAt(c, OldestIndex(c)), max_size)
  ELSE c

\* CacheSet that stores nothing
CacheSetNothing(c, key, data, t, max_size) == c

\* TimedCache.set: the dict afterwards
CacheSet(c, key, data, t, max_size) ==
  LET c1 == Evict(c, max_size)
      entry == [key |-> key, data |-> data, timestamp |-> t, access_count |-> 0]
      i == KeyIndex(c1, key, 1)
  IN IF i = 0 THEN Append(c1, entry) ELSE [c1 EXCEPT ![i] = entry]

\* TimedCache.delete: the dict afterwards
CacheDelete(c, key) ==
  IF KeyIndex(c, key, 1) # 0 THEN DeleteAt(c, KeyIndex(c, key, 1)) ELSE c

\* TimedCache.clear: the dict afterwards
CacheClear(c) == <<>>

(***************************************************************************)
(* The phrases of EnhancedReviewAnalyzer and the review texts of the       *)
(* model.                                                                  *)
(***************************************************************************)
\* <<p, w>>: the word p of a phrase occurs inside the word w of a text
InfixPairs ==
  {<<"i", "animation">>, <<"i", "boring">>, <<"i", "confusing">>, <<"i", "ending">>, <<"i", "filler">>, <<"i", "fine">>, <<"i", "is">>, <<"i", "it">>, <<"i", "pacing">>, <<"i", "predictable">>, <<"i", "think">>, <<"in", "boring">>, <<"in", "confusing">>, <<"in", "ending">>, <<"in", "fine">>, <<"in", "pacing">>, <<"in", "think">>, <<"slow", "slowly">>, <<"character", "characters">>}

\* <<p, w>>: w starts with p
PrefixPairs ==
  {<<"i", "is">>, <<"i", "it">>, <<"slow", "slowly">>, <<"character", "characters">>}

\* <<p, w>>: w ends with p
SuffixPairs ==
  {}

Categories ==
  <<"pacing", "plot", "characters", "animation", "ending", "power_scaling", "adaptation", "fan_service">>

\* CRITICISM_PATTERNS: each phrase is a sequence of lexemes
CRITICISM_PATTERNS ==
  [pacing |->
     [keywords |->
        <<<<"pacing">>,
         <<"slow">>,
         <<"rushed">>,
         <<"dragging">>,
         <<"filler">>,
         <<"boring">>,
         <<"pace">>,
         <<"too", " ", "long">>,
         <<"bloated">>>>,
      positive_indicators |->
        <<<<"perfect", " ", "pacing">>,
         <<"well", "-", "paced">>,
         <<"never", " ", "drags">>,
         <<"great", " ", "pacing">>>>,
      negative_indicators |->
        <<<<"too", " ", "slow">>,
         <<"drags">>,
         <<"rushed">>,
         <<"boring">>,
         <<"filler", " ", "hell">>,
         <<"padding">>>>],
   plot |->
     [keywords |->
        <<<<"plot", " ", "holes">>,
         <<"inconsistent">>,
         <<"makes", " ", "no", " ", "sense">>,
         <<"confusing">>,
         <<"predictable">>,
         <<"cliche">>,
         <<"trope">>,
         <<"formulaic">>,
         <<"asspull">>>>,
      positive_indicators |->
        <<<<"great", " ", "story">>,
         <<"masterpiece">>,
         <<"well", " ", "written">>,
         <<"engaging", " ", "plot">>>>,
      negative_indicators |->
        <<<<"plot", " ", "holes">>,
         <<"makes", " ", "no", " ", "sense">>,
         <<"asspull">>,
         <<"convenient">>,
         <<"lazy", " ", "writing">>>>],
   characters |->
     [keywords |->
        <<<<"character", " ", "development">>,
         <<"shallow">>,
         <<"one", "-", "dimensional">>,
         <<"annoying">>,
         <<"unlikable">>,
         <<"bland">>,
         <<"mary", " ", "sue">>,
         <<"gary", " ", "stu">>,
         <<"generic", " ", "protagonist">>>>,
      positive_indicators |->
        <<<<"great", " ", "characters">>,
         <<"character", " ", "development">>,
         <<"complex">>,
         <<"relatable">>,
         <<"memorable">>>>,
      negative_indicators |->
        <<<<"shallow">>,
         <<"annoying">>,
         <<"bland">>,
         <<"no", " ", "development">>,
         <<"generic">>>>],
   animation |->
     [keywords |->
        <<<<"animation">>,
         <<"art">>,
         <<"budget">>,
         <<"quality", " ", "drop">>,
         <<"off", "-", "model">>,
         <<"still", " ", "frames">>,
         <<"cgi">>,
         <<"sakuga">>>>,
      positive_indicators |->
        <<<<"beautiful", " ", "animation">>,
         <<"stunning">>,
         <<"sakuga">>,
         <<"great", " ", "art">>>>,
      negative_indicators |->
        <<<<" ", "QUALITY">>,
         <<"budget", " ", "cuts">>,
         <<"off", "-", "model">>,
         <<"still", " ", "frames">>,
         <<"bad", " ", "cgi">>>>],
   ending |->
     [keywords |->
        <<<<"ending">>,
         <<"finale">>,
         <<"conclusion">>,
         <<"rushed", " ", "ending">>,
         <<"disappointing", " ", "ending">>,
         <<"last", " ", "episode">>>>,
      positive_indicators |->
        <<<<"satisfying", " ", "ending">>,
         <<"perfect", " ", "conclusion">>,
         <<"great", " ", "finale">>>>,
      negative_indicators |->
        <<<<"rushed", " ", "ending">>,
         <<"disappointing">>,
         <<"bad", " ", "ending">>,
         <<"fell", " ", "apart">>>>],
   power_scaling |->
     [keywords |->
        <<<<"power", " ", "creep">>,
         <<"asspull">>,
         <<"plot", " ", "armor">>,
         <<"convenient">>,
         <<"deus", " ", "ex", " ", "machina">>,
         <<"power", " ", "scaling">>>>,
      positive_indicators |->
        <<<<"well", " ", "explained">>,
         <<"consistent", " ", "powers">>,
         <<"logical", " ", "progression">>>>,
      negative_indicators |->
        <<<<"power", " ", "creep">>,
         <<"plot", " ", "armor">>,
         <<"asspull">>,
         <<"inconsistent">>>>],
   adaptation |->
     [keywords |->
        <<<<"adaptation">>,
         <<"read", " ", "the", " ", "manga">>,
         <<"skipped">>,
         <<"cut", " ", "content">>,
         <<"rushed", " ", "adaptation">>,
         <<"anime", " ", "original">>>>,
      positive_indicators |->
        <<<<"great", " ", "adaptation">>,
         <<"faithful">>,
         <<"improved">>>>,
      negative_indicators |->
        <<<<"butchered">>,
         <<"rushed", " ", "adaptation">>,
         <<"skipped", " ", "arcs">>,
         <<"read", " ", "the", " ", "manga">>>>],
   fan_service |->
     [keywords |->
        <<<<"fan", " ", "service">>,
         <<"ecchi">>,
         <<"harem">>,
         <<"unnecessary", " ", "scenes">>,
         <<"sexualization">>>>,
      positive_indicators |->
        <<<<"tasteful">>,
         <<"subtle">>,
         <<"rare">>>>,
      negative_indicators |->
        <<<<"too", " ", "much", " ", "fan", " ", "service">>,
         <<"unnecessary">>,
         <<"creepy">>,
         <<"uncomfortable">>>>]]

GENUINE_SENTIMENT_MARKERS ==
  <<<<"personally">>,
   <<"for", " ", "me">>,
   <<"i", " ", "felt">>,
   <<"i", " ", "think">>,
   <<"in", " ", "my", " ", "opinion">>,
   <<"the", " ", "reason">>,
   <<"because">>,
   <<"the", " ", "problem", " ", "is">>,
   <<"while">>,
   <<"although">>>>

\* negative_words and positive_words of calculate_sentiment_breakdown
negative_words ==
  <<<<"bad">>,
   <<"terrible">>,
   <<"awful">>,
   <<"worst">>,
   <<"disappointing">>,
   <<"waste">>,
   <<"regret">>>>

positive_words ==
  <<<<"great">>,
   <<"amazing">>,
   <<"best">>,
   <<"masterpiece">>,
   <<"excellent">>,
   <<"love">>>>

TextSlow ==
  <<"The", " ", "pacing", " ", "is", " ", "too", " ", "slow", " ", "and", " ", "it", " ", "drags", ".">>

TextGreatPacing ==
  <<"Great", " ", "pacing", " ", "because", " ", "it", " ", "never", " ", "drags", "!">>

TextPaceForMe ==
  <<"The", " ", "pace", " ", "never", " ", "drags", " ", "for", " ", "me", ".">>

TextPaceHere ==
  <<"The", " ", "pace", " ", "never", " ", "drags", " ", "here", ".">>

TextFillerHell ==
  <<"Boring", " ", "filler", " ", "hell", ",", " ", "personally", ".">>

TextPlotHoles ==
  <<"The", " ", "plot", " ", "holes", " ", "are", " ", "everywhere", ".">>

TextShortThenPlot ==
  <<"Too", " ", "slow", ".", " ", "So", " ", "predictable", " ", "and", " ", "full", " ", "of", " ", "plot", " ", "holes", "!">>

TextAnimation ==
  <<"The", " ", "animation", " ", "is", " ", "fine", " ", "i", " ", "think", ".">>

TextTooLong ==
  <<"boring", " ", LongWord, " ", LongWord, ".">>

TextNoSense ==
  <<"It", " ", "makes", " ", "no", " ", "sense", " ", "at", " ", "all", ".", " ", "It", " ", "is", " ", "confusing", " ", "and", " ", "has", " ", "plot", " ", "holes", ".">>

TextWaste ==
  <<"A", " ", "waste", ",", " ", "the", " ", "worst", ".">>

TextSlowly ==
  <<"It", " ", "moves", " ", "slowly", "\n", "but", " ", "it", " ", "is", " ", "rushed", ",", " ", "the", " ", "worst", " ", "ending", ".">>

TextSlowPlot ==
  <<"The", " ", "pacing", " ", "is", " ", "too", " ", "slow", " ", "and", " ", "the", " ", "plot", " ", "is", " ", "predictable", " ", "and", " ", "has", " ", "plot", " ", "holes", ".">>

TextEmpty ==
  <<>>

(***************************************************************************)
(* EnhancedReviewAnalyzer (enhanced_review_analyzer.py).  Review texts and *)
(* phrases are sequences of lexemes; "phrase in text" is the substring     *)
(* test of Python, decided for the words of the model by the three tables  *)
(* of word pairs above.  A confidence is a fraction [n, d].                *)
(***************************************************************************)
\* text.lower()
Lower(s) == [i \in 1..Len(s) |-> Fold(s[i])]

Infix(p, w) == p = w \/ <<p, w>> \in InfixPairs

Prefix(p, w) == p = w \/ <<p, w>> \in PrefixPairs

Suffix(p, w) == p = w \/ <<p, w>> \in SuffixPairs

\* an occurrence of the phrase starts inside the lexeme s[i]
PhraseAt(phrase, s, i) ==
  LET n == Len(phrase)
  IN /\ i + n - 1 <= Len(s)
     /\ IF n = 1 THEN Infix(phrase[1], s[i])
        ELSE /\ Suffix(phrase[1], s[i])
             /\ \A k \in 2..(n - 1) : phrase[k] = s[i + k - 1]
             /\ Prefix(phrase[n], s[i + n - 1])

\* phrase in s
Contains(phrase, s) == \E i \in 1..Len(s) : PhraseAt(phrase, s, i)

\* sum(1 for p in phrases if p in s)
CountIn(phrases, s) ==
  Cardinality({k \in 1..Len(phrases) : Contains(phrases[k], s)})

Terminators == {".", "!", "?"}

RECURSIVE TermEnd(_, _)
\* the position after the run of . ! ? starting at i
TermEnd(s, i) == IF At(s, i) \in Terminators THEN TermEnd(s, i + 1) ELSE i

RECURSIVE SplitFrom(_, _, _)
SplitFrom(s, i, acc) ==
  IF i > Len(s) THEN <<acc>>
  ELSE IF s[i] \in Terminators
    THEN <<acc>> \o SplitFrom(s, TermEnd(s, i), <<>>)
  ELSE SplitFrom(s, i + 1, Append(acc, s[i]))

\* re.split(r"[.!?]+", text)
SplitSentences(text) == SplitFrom(text, 1, <<>>)

RECURSIVE ChunksFrom(_, _, _)
ChunksFrom(s, i, acc) ==
  IF i > Len(s) THEN (IF acc = <<>> THEN <<>> ELSE <<acc>>)
  ELSE IF s[i] \in Whitespace
    THEN (IF acc = <<>> THEN <<>> ELSE <<acc>>) \o ChunksFrom(s, i + 1, <<>>)
  ELSE ChunksFrom(s, i + 1, Append(acc, s[i]))

\* s.split()
Chunks(s) == ChunksFrom(s, 1, <<>>)

MIN_SENTENCE_LENGTH == 15
MAX_SENTENCE_LENGTH == 200

\* "if keyword in sentence_lower" and then "if keyword in word" for a word
\* of sentence_lower.split()
KeywordFound(keyword, sentence_lower) ==
  /\ Contains(keyword, sentence_lower)
  /\ \E j \in 1..Len(Chunks(sentence_lower)) :
       Contains(keyword, Chunks(sentence_lower)[j])

\* the stripped sentence is returned by the loop of extract_specific_complaint
SentenceReturned(sentence, keywords) ==
  /\ ~(TextLen(sentence) < MIN_SENTENCE_LENGTH)
  /\ ~(TextLen(sentence) > MAX_SENTENCE_LENGTH)
  /\ \E k \in 1..Len(keywords) : KeywordFound(keywords[k], Lower(sentence))

RECURSIVE FirstReturned(_, _, _)
FirstReturned(sentences, i, keywords) ==
  IF i > Len(sentences) THEN <<>>
  ELSE IF SentenceReturned(Strip(sentences[i]), keywords)
    THEN <<Strip(sentences[i])>>
  ELSE FirstReturned(sentences, i + 1, keywords)

\* EnhancedReviewAnalyzer.extract_specific_complaint: <<>> for None
extract_specific_complaint(text, category) ==
  IF text = <<>> THEN <<>>
  ELSE FirstReturned(SplitSentences(text), 1,
                     CRITICISM_PATTERNS[category].keywords)

Rat(n, d) == [n |-> n, d |-> d]

RatAdd(a, b) == Rat(a.n * b.d + b.n * a.d, a.d * b.d)

RatLeq(a, b) == a.n * b.d <= b.n * a.d

RatEq(a, b) == a.n * b.d = b.n * a.d

RatMin(a, b) == IF RatLeq(a, b) THEN a ELSE b

\* BaseConfidence that is 0.5 whatever the counts
BaseConfidenceHalf(count, total) == Rat(1, 2)

\* min(0.5 + (count / total_mentions) * 0.5, 1.0)
BaseConfidence(count, total) ==
  RatMin(RatAdd(Rat(1, 2), Rat(count, 2 * total)), Rat(1, 1))

\* Boost without the upper limit
BoostUnbounded(confidence) == RatAdd(confidence, Rat(1, 10))

\* min(confidence + 0.1, 1.0)
Boost(confidence) == RatMin(RatAdd(confidence, Rat(1, 10)), Rat(1, 1))

\* EnhancedReviewAnalyzer.analyze_sentiment_with_context:
\* [sentiment, confidence]
analyze_sentiment_with_context(text, category) ==
  LET text_lower == Lower(text)
      pos_count == CountIn(CRITICISM_PATTERNS[category].positive_indicators,
                           text_lower)
      neg_count == CountIn(CRITICISM_PATTERNS[category].negative_indicators,
                           text_lower)
      total_mentions == pos_count + neg_count
      sentiment == IF neg_count > pos_count THEN "negative"
                   ELSE IF pos_count > neg_count THEN "positive"
                   ELSE "mixed"
      confidence == IF neg_count > pos_count
                      THEN BaseConfidence(neg_count, total_mentions)
                    ELSE IF pos_count > neg_count
                      THEN BaseConfidence(pos_count, total_mentions)
                    ELSE Rat(1, 2)
      genuine_markers == CountIn(GENUINE_SENTIMENT_MARKERS, text_lower)
  IN IF text = <<>> THEN [sentiment |-> "neutral", confidence |-> Rat(0, 1)]
     ELSE IF total_mentions = 0
       THEN [sentiment |-> "neutral", confidence |-> Rat(0, 1)]
     ELSE [sentiment |-> sentiment,
           confidence |-> IF genuine_markers > 0 THEN Boost(confidence)
                          ELSE confidence]

RatMul(a, b) == [n |-> a.n * b.n, d |-> a.d * b.d]

RECURSIVE RatSum(_)
RatSum(scores) ==
  IF scores = <<>> THEN Rat(0, 1) ELSE RatAdd(Head(scores), RatSum(Tail(scores)))

\* min_confidence: float = 0.6
MIN_CONFIDENCE == Rat(3, 5)

\* review.get("body", "") or review.get("summary", "")
ReviewText(review) == IF review.body # <<>> THEN review.body ELSE review.summary

\* complaint_text.strip().replace("\n", " ")
CleanExample(complaint_text) ==
  LET stripped == Strip(complaint_text)
  IN [i \in DOMAIN stripped |-> IF stripped[i] = "\n" THEN " " ELSE stripped[i]]

\* the sentiment and the confidence count for a complaint
Counted(analysis) ==
  /\ analysis.sentiment \in {"negative", "mixed"}
  /\ RatLeq(MIN_CONFIDENCE, analysis.confidence)

\* category_data[category] after one more counted complaint; category_data is
\* the sequence of its entries in the order of their insertion
AddComplaint(data, category, confidence, complaint_text) ==
  LET known == {j \in 1..Len(data) : data[j].category = category}
      base == IF known = {}
              THEN Append(data, [category |-> category, sentiment_scores |-> <<>>,
                                 examples |-> <<>>, count |-> 0])
              ELSE data
      j == CHOOSE k \in 1..Len(base) : base[k].category = category
      clean_example == CleanExample(complaint_text)
      examples ==
        IF /\ Len(base[j].examples) < 3
           /\ \A e \in 1..Len(base[j].examples) : base[j].examples[e] # clean_example
        THEN Append(base[j].examples, clean_example)
        ELSE base[j].examples
  IN [base EXCEPT ![j] = [category |-> category,
                          sentiment_scores |-> Append(@.sentiment_scores, confidence),
                          examples |-> examples,
                          count |-> @.count + 1]]

\* one category of one review
CheckCategory(data, text, category) ==
  LET complaint_text == extract_specific_complaint(text, category)
  IN IF complaint_text = <<>> \/ complaint_text[1] = <<>> THEN data
     ELSE LET analysis == analyze_sentiment_with_context(complaint_text[1], category)
          IN IF Counted(analysis)
             THEN AddComplaint(data, category, analysis.confidence, complaint_text[1])
             ELSE data

RECURSIVE CheckCategories(_, _, _)
CheckCategories(data, text, k) ==
  IF k > Len(Categories) THEN data
  ELSE CheckCategories(CheckCategory(data, text, Categories[k]), text, k + 1)

RECURSIVE CollectFrom(_, _, _)
CollectFrom(data, reviews, i) ==
  IF i > Len(reviews) THEN data
  ELSE LET text == ReviewText(reviews[i])
       IN CollectFrom(IF text = <<>> THEN data ELSE CheckCategories(data, text, 1),
                      reviews, i + 1)

\* every category with a counted complaint is verified
VerifiedAlways(entry) == entry.count >= 1

\* if data["count"] >= 2
Verified(entry) == entry.count >= 2

\* ExtractedComplaint(...)
Complaint(entry) ==
  [category |-> entry.category,
   sentiment |-> "negative",
   confidence |-> LET total == RatSum(entry.sentiment_scores)
                  IN Rat(total.n, total.d * Len(entry.sentiment_scores)),
   review_count |-> entry.count,
   example_quotes |-> entry.examples]

\* key=lambda x: (x.confidence * x.review_count)
SortKey(complaint) == RatMul(complaint.confidence, Rat(complaint.review_count, 1))

\* the complaint inserted behind the complaints whose key is not smaller
InsertByKey(sorted, complaint) ==
  LET ahead == {j \in 1..Len(sorted) : RatLeq(SortKey(complaint), SortKey(sorted[j]))}
      at == IF ahead = {} THEN 0 ELSE CHOOSE j \in ahead : \A k \in ahead : k <= j
  IN SubSeq(sorted, 1, at) \o <<complaint>> \o SubSeq(sorted, at + 1, Len(sorted))

\* verified_complaints.sort(key=..., reverse=True): stable, largest key first
RECURSIVE SortFrom(_, _, _)
SortFrom(sorted, complaints, i) ==
  IF i > Len(complaints) THEN sorted
  ELSE SortFrom(InsertByKey(sorted, complaints[i]), complaints, i + 1)

RECURSIVE VerifiedFrom(_, _)
VerifiedFrom(data, j) ==
  IF j > Len(data) THEN <<>>
  ELSE (IF Verified(data[j]) THEN <<Complaint(data[j])>> ELSE <<>>)
       \o VerifiedFrom(data, j + 1)

TOP_COMPLAINTS == 5

identify_verified_criticisms(reviews) ==
  LET verified_complaints == SortFrom(<<>>, VerifiedFrom(CollectFrom(<<>>, reviews, 1), 1), 1)
  IN SubSeq(verified_complaints, 1,
            IF Len(verified_complaints) < TOP_COMPLAINTS THEN Len(verified_complaints)
            ELSE TOP_COMPLAINTS)

\* the band of a rating
RatingSentiment(rating) ==
  IF rating >= 8 THEN "very_positive"
  ELSE IF rating >= 6 THEN "positive"
  ELSE IF rating >= 4 THEN "mixed"
  ELSE IF rating >= 2 THEN "negative"
  ELSE "very_negative"

\* the sentiment of a text by the two word lists
TextSentiment(text) ==
  LET text_lower == Lower(text)
      neg_count == CountIn(negative_words, text_lower)
      pos_count == CountIn(positive_words, text_lower)
  IN IF pos_count > neg_count THEN "positive"
     ELSE IF neg_count > pos_count THEN "negative"
     ELSE "neutral"

\* if rating: ... else: ...; a rating of None and a rating of 0 are falsy
ReviewSentiment(review) ==
  IF review.rating # <<>> /\ review.rating[1] # 0
  THEN RatingSentiment(review.rating[1])
  ELSE TextSentiment(ReviewText(review))

\* sentiments.count(a) + sentiments.count(b)
CountOf(sentiments, labels) ==
  Cardinality({i \in 1..Len(sentiments) : sentiments[i] \in labels})

calculate_sentiment_breakdown(reviews) ==
  LET sentiments == [i \in 1..Len(reviews) |-> ReviewSentiment(reviews[i])]
      total == Len(sentiments)
      positive == CountOf(sentiments, {"positive", "very_positive"})
      negative == CountOf(sentiments, {"negative", "very_negative"})
  IN IF total = 0 THEN [positive |-> 0, mixed |-> 0, negative |-> 0]
     ELSE [positive |-> positive,
           mixed |-> CountOf(sentiments, {"mixed", "neutral"}),
           negative |-> negative,
           total |-> total,
           positive_pct |-> Rat(positive * 100, total),
           negative_pct |-> Rat(negative * 100, total)]

(***************************************************************************)
(* The context builder: simple_context_builder.py.  A string is the        *)
(* sequence of its lines, a line the sequence of its pieces.               *)
(***************************************************************************)
MIN_REVIEWS_FOR_DATA == 10

BEST_QUOTE_LENGTH == 80

LOW_SCORE == 70

\* str(n) of a natural number
RECURSIVE IntStr(_)
IntStr(n) ==
  LET digit == <<"0", "1", "2", "3", "4", "5", "6", "7", "8", "9">>[(n % 10) + 1]
  IN IF n < 10 THEN <<digit>> ELSE Append(IntStr(n \div 10), digit)

\* an optional number that is there and not 0
Truthy(number) == number # <<>> /\ number[1] # 0

\* "\n".join(lines) of the lines of one section; "" is one empty line
JoinLines(lines) == IF lines = <<>> THEN <<<<>>>> ELSE lines

\* "\n\n".join(sections): an empty line between two sections
RECURSIVE JoinSections(_)
JoinSections(sections) ==
  IF Len(sections) = 1 THEN sections[1]
  ELSE sections[1] \o <<<<>>>> \o JoinSections(Tail(sections))

\* ', '.join(studios[:2])
JoinStudios(studios) ==
  IF Len(studios) = 1 THEN <<studios[1]>> ELSE <<studios[1], ", ", studios[2]>>

_build_basic_info(anime) ==
  LET display_title ==
        IF anime.title.english # "" THEN anime.title.english
        ELSE IF anime.title.romaji # "" THEN anime.title.romaji
        ELSE "Unknown"
  IN <<<<"Anime: ", display_title>>>>
     \o (IF Truthy(anime.year) THEN <<<<"Year: ">> \o IntStr(anime.year[1])>> ELSE <<>>)
     \o (IF Truthy(anime.episodes)
         THEN <<<<"Episodes: ">> \o IntStr(anime.episodes[1])>> ELSE <<>>)
     \o (IF anime.format # "" THEN <<<<"Format: ", anime.format>>>> ELSE <<>>)
     \o (IF anime.studios # <<>>
         THEN <<<<"Studio: ">> \o JoinStudios(anime.studios)>> ELSE <<>>)

\* score / 10 >= 8.0 and so on, on the score out of 100
_build_reception(anime) ==
  IF ~Truthy(anime.score) THEN <<<<"Reception: Unknown">>>>
  ELSE LET score == anime.score[1]
           reception ==
             IF score >= 80 THEN "Highly rated by the community"
             ELSE IF score >= 70 THEN "Generally well-received"
             ELSE IF score >= 60 THEN "Mixed reception with both fans and critics"
             ELSE IF score >= 50 THEN "Below average reception"
             ELSE "Poorly received by the community"
       IN <<<<"Reception: ", reception>>
            \o (IF anime.controversyScore > 30 THEN <<" - polarizing opinions">>
                ELSE <<>>)>>

\* category.replace('_', ' ').title()
CategoryTitle ==
  [pacing |-> "Pacing", plot |-> "Plot", characters |-> "Characters",
   animation |-> "Animation", ending |-> "Ending",
   power_scaling |-> "Power Scaling", adaptation |-> "Adaptation",
   fan_service |-> "Fan Service"]

\* abs(len(x) - 80)
QuoteKey(example) ==
  IF TextLen(example) >= BEST_QUOTE_LENGTH THEN TextLen(example) - BEST_QUOTE_LENGTH
  ELSE BEST_QUOTE_LENGTH - TextLen(example)

\* min(examples, key=...): the first example with the smallest key
BestQuote(examples) ==
  LET best == {i \in 1..Len(examples) :
                 \A j \in 1..Len(examples) : QuoteKey(examples[i]) <= QuoteKey(examples[j])}
  IN examples[CHOOSE i \in best : \A j \in best : i <= j]

\* the lines of one complaint
ThemeLines(complaint) ==
  IF complaint.examples = <<>> THEN <<>>
  ELSE << <<>>,
          <<CategoryTitle[complaint.category], ":">>,
          <<"  \"">> \o BestQuote(complaint.examples) \o <<"\"">> >>

RECURSIVE ThemesFrom(_, _)
ThemesFrom(complaints, i) ==
  IF i > Len(complaints) THEN <<>>
  ELSE ThemeLines(complaints[i]) \o ThemesFrom(complaints, i + 1)

TOP_THEMES == 4

\* every review context is used, whatever its review_count
UseReviewDataAlways(review_context) == review_context # <<>>

\* review_context and review_context.get("review_count", 0) >= MIN_REVIEWS_FOR_DATA
UseReviewData(review_context) ==
  /\ review_context # <<>>
  /\ review_context[1].review_count >= MIN_REVIEWS_FOR_DATA

ThemesHeader == <<"=== COMMON THEMES IN REVIEWS ===">>

_build_review_themes(review_context) ==
  LET complaints == review_context.verified_complaints
  IN IF complaints = <<>> THEN <<<<>>>>
     ELSE <<ThemesHeader>>
          \o ThemesFrom(SubSeq(complaints, 1,
                               IF Len(complaints) < TOP_THEMES THEN Len(complaints)
                               ELSE TOP_THEMES), 1)

_build_source_context(anime) ==
  LET source_line ==
        IF anime.source = "MANGA" THEN <<<<"Source: Manga adaptation">>>>
        ELSE IF anime.source = "LIGHT_NOVEL" THEN <<<<"Source: Light novel adaptation">>>>
        ELSE IF anime.source = "VISUAL_NOVEL" THEN <<<<"Source: Visual novel adaptation">>>>
        ELSE IF anime.source = "WEB_NOVEL" THEN <<<<"Source: Web novel adaptation">>>>
        ELSE IF anime.source = "ORIGINAL"
             THEN <<<<"Source: Original anime (no source material)">>>>
        ELSE <<>>
      prequels == \E i \in 1..Len(anime.relations) :
                    anime.relations[i].relation \in {"PREQUEL", "PARENT"}
      sequel_lines ==
        IF ~prequels THEN <<>>
        ELSE <<<<"Note: This is a sequel in a franchise">>>>
             \o (IF Truthy(anime.score) /\ anime.score[1] < LOW_SCORE
                 THEN <<<<"Reception: Lower than previous seasons">>>> ELSE <<>>)
  IN JoinLines(source_line \o sequel_lines)

build_context(anime, review_context) ==
  JoinSections(
    <<JoinLines(_build_basic_info(anime)), JoinLines(_build_reception(anime))>>
    \o (IF UseReviewData(review_context)
        THEN <<_build_review_themes(review_context[1])>> ELSE <<>>)
    \o <<_build_source_context(anime)>>)

\* the review texts of the model
ReviewTexts ==
  {TextSlow, TextGreatPacing, TextPaceForMe, TextPaceHere, TextFillerHell,
   TextPlotHoles, TextShortThenPlot, TextAnimation, TextTooLong, TextNoSense,
   TextWaste, TextSlowly, TextSlowPlot, TextEmpty}

\* the stripped sentences of a text
SentencesOf(text) ==
  {Strip(SplitSentences(text)[i]) : i \in 1..Len(SplitSentences(text))}

\* the texts that are analysed: the review texts and their sentences
Sentences == ReviewTexts \cup UNION {SentencesOf(text) : text \in ReviewTexts}

CategorySet == {Categories[k] : k \in 1..Len(Categories)}

\* the longest list of reviews
MaxReviews == 3

\* a review with a body and no rating
Review(text) == [body |-> text, summary |-> <<>>, rating |-> <<>>]

\* the reviews whose complaints are collected: bodies that count for pacing,
\* for plot or for both, bodies that do not count, a review with a summary
\* only and a review without text
ComplaintReviews ==
  {Review(TextPaceForMe), Review(TextPaceHere),
   Review(TextGreatPacing), Review(TextShortThenPlot), Review(TextSlowPlot),
   [body |-> <<>>, summary |-> TextSlowly, rating |-> <<>>],
   Review(TextEmpty)}

\* the ratings of the reviews: none, 0 and both sides of every band
Ratings == {<<>>, <<0>>, <<1>>, <<2>>, <<4>>, <<6>>, <<8>>}

\* the reviews whose sentiment is counted: every rating with a text of more
\* positive words, no rating and a high rating with a text of more negative
\* words, and an unrated review with neither
RatedReviews ==
  {[body |-> TextGreatPacing, summary |-> <<>>, rating |-> rating] :
     rating \in Ratings}
  \cup {Review(TextWaste), [body |-> TextWaste, summary |-> <<>>, rating |-> <<8>>],
        Review(TextAnimation)}

\* the longest list of verified complaints of a review context
MaxComplaints == 5

\* anime data with every field, with a low score and a prequel
AnimeSequel ==
  [title |-> [english |-> "One Punch Man Season 3", romaji |-> "One Punch Man 3"],
   year |-> <<2025>>, episodes |-> <<12>>, format |-> "TV",
   studios |-> <<"J.C.Staff">>, source |-> "MANGA", score |-> <<51>>,
   controversyScore |-> 15, relations |-> <<[relation |-> "PREQUEL"]>>]

\* anime data with a title only
AnimeBare ==
  [title |-> [english |-> "", romaji |-> "Naruto"],
   year |-> <<>>, episodes |-> <<0>>, format |-> "",
   studios |-> <<>>, source |-> "", score |-> <<>>,
   controversyScore |-> 0, relations |-> <<>>]

\* anime data of a polarizing original with two studios and a high score
AnimeOriginal ==
  [title |-> [english |-> "", romaji |-> ""],
   year |-> <<1998>>, episodes |-> <<>>, format |-> "MOVIE",
   studios |-> <<"Madhouse", "Sunrise", "Bones">>, source |-> "ORIGINAL",
   score |-> <<85>>, controversyScore |-> 40,
   relations |-> <<[relation |-> "SEQUEL"]>>]

AnimeData == {AnimeSequel, AnimeBare, AnimeOriginal}

\* verified complaints: with two examples, with one and with none
Complaints ==
  {[category |-> "pacing",
    examples |-> <<extract_specific_complaint(TextSlow, "pacing")[1],
                   extract_specific_complaint(TextSlowPlot, "pacing")[1]>>],
   [category |-> "plot",
    examples |-> <<extract_specific_complaint(TextShortThenPlot, "plot")[1]>>],
   [category |-> "fan_service", examples |-> <<>>]}

\* the review_count of a review context: around MIN_REVIEWS_FOR_DATA
ReviewCounts == {0, 9, 10, 15}

\* no review context, or one with a review_count and verified complaints
ReviewContexts ==
  {<<>>} \cup
  {<<[review_count |-> n, verified_complaints |-> complaints]>> :
     n \in ReviewCounts,
     complaints \in UNION {[1..k -> Complaints] : k \in 0..MaxComplaints}}

\* the longest text that is built from single lexemes
MaxLexemes == 3

\* the lexemes of the short texts that are cleaned
CleanerLexemes == {"foo", " ", "!", "5", "%", "reviews", "REVIEWS", "(", ")"}

\* a text is the sequence of its lexemes: no word lexeme follows another
WellFormed(s) ==
  \A i \in 1..(Len(s) - 1) : ~(IsWordLexeme(s[i]) /\ IsWordLexeme(s[i + 1]))

ShortTexts ==
  {s \in UNION {[1..n -> CleanerLexemes] : n \in 0..MaxLexemes} : WellFormed(s)}

\* one phrase of each class that clean_roast and has_statistics both cover:
\* a percentage, a decimal score out of 10 and review counts
CoveredPhrases ==
  {<<"50", "%">>, <<"5", ".", "1", "/", "10">>, <<"5", " ", "reviews">>,
   <<"1", " ", "review">>, <<"5", " ", "REVIEWS">>,
   <<"out", " ", "of", " ", "5", " ", "reviews">>}

\* texts whose statistics are covered phrases only: a phrase alone, a phrase
\* between plain words and two phrases
CoveredTexts ==
  CoveredPhrases
  \cup {<<"foo", " ">> \o p \o <<" ", "bar", ".">> : p \in CoveredPhrases}
  \cup {p \o <<" ">> \o q : p \in CoveredPhrases, q \in CoveredPhrases}

\* the lists of at most MaxReviews reviews
ListsOf(S) == UNION {[1..n -> S] : n \in 0..MaxReviews}

(***************************************************************************)
(* RoastValidator (roast_validator.py).  An issue is a record [kind, of]: *)
(* the kind is the prefix of the message and of holds what the message    *)
(* reports.                                                                *)
(***************************************************************************)
RECURSIVE Pow10(_)
Pow10(n) == IF n = 0 THEN 1 ELSE 10 * Pow10(n - 1)

\* \b\d+(?:\.\d+)?/10\b at position i: the number of lexemes matched, 0 when
\* the pattern does not match there
RatingLen(s, i) ==
  IF ~(WordBoundary(s, i) /\ At(s, i) \in Numbers) THEN 0
  ELSE IF /\ At(s, i + 1) = "." /\ At(s, i + 2) \in Numbers
          /\ At(s, i + 3) = "/" /\ At(s, i + 4) = "10"
          /\ WordBoundary(s, i + 5)
         THEN 5
  ELSE IF At(s, i + 1) = "/" /\ At(s, i + 2) = "10" /\ WordBoundary(s, i + 3)
         THEN 3
  ELSE 0

\* the group (\d+(?:\.\d+)?) of a match of n lexemes at i: [whole, frac,
\* digits] for the number whole.frac with digits decimals
RatingAt(s, i, n) ==
  IF n = 5
    THEN [whole |-> NumVal(s[i]), frac |-> NumVal(s[i + 2]),
          digits |-> Len(s[i + 2])]
    ELSE [whole |-> NumVal(s[i]), frac |-> 0, digits |-> 0]

RECURSIVE FindRatings(_, _)
\* re.findall(r"\b(\d+(?:\.\d+)?)/10\b", s): the claimed ratings of the
\* leftmost non-overlapping matches, in the order of the text
FindRatings(s, i) ==
  IF i > Len(s) THEN <<>>
  ELSE LET n == RatingLen(s, i)
       IN IF n > 0 THEN <<RatingAt(s, i, n)>> \o FindRatings(s, i + n)
                   ELSE FindRatings(s, i + 1)

\* the pairs <<claimed, score>> in tenths, exactly 1.0 apart, for which the
\* double-precision difference float(claimed) - score / 10 has a magnitude
\* above 1.0 (2.2 - 1.2 is 1.0000000000000002), for scores of 1 to 100
FloatAboveOne ==
  {<<22, 12>>, <<27, 17>>, <<12, 22>>, <<17, 27>>, <<44, 34>>, <<49, 39>>,
   <<34, 44>>, <<39, 49>>, <<83, 73>>, <<88, 78>>, <<73, 83>>, <<78, 88>>}

\* abs(claimed - actual_score) > 1.0 with actual_score = score / 10
FakeRating(claim, score) ==
  LET unit == Pow10(claim.digits)
      diff == 10 * (claim.whole * unit + claim.frac) - score * unit
      dist == IF diff < 0 THEN 0 - diff ELSE diff
  IN \/ dist > 10 * unit
     \/ /\ dist = 10 * unit
        /\ <<IF diff < 0 THEN score - 10 ELSE score + 10, score>>
             \in FloatAboveOne

RECURSIVE FakeIssues(_, _)
FakeIssues(claims, score) ==
  IF claims = <<>> THEN <<>>
  ELSE (IF FakeRating(Head(claims), score)
          THEN <<[kind |-> "FAKE RATING", of |-> <<Head(claims), score>>]>>
          ELSE <<>>)
       \o FakeIssues(Tail(claims), score)

\* RoastValidator._check_fake_ratings: score is anime_data.get("score")
_check_fake_ratings(text, score) ==
  LET claims == FindRatings(text, 1)
  IN IF Truthy(score) THEN FakeIssues(claims, score[1])
     ELSE [k \in 1..Len(claims) |->
             [kind |-> "SUSPICIOUS RATING", of |-> <<claims[k]>>]]

\* str(n) for 0 to 10, one lexeme
NumLexeme(n) ==
  <<"0", "1", "2", "3", "4", "5", "6", "7", "8", "9", "10">>[n + 1]

\* f"{actual_score / 10:.1f}/10"
ScoreText(score) ==
  <<NumLexeme(score \div 10), ".", NumLexeme(score % 10), "/", "10">>

RECURSIVE ReplaceRatings(_, _, _)
\* re.sub(r"\b\d+(?:\.\d+)?/10\b", score_text, s)
ReplaceRatings(s, i, score_text) ==
  IF i > Len(s) THEN <<>>
  ELSE LET n == RatingLen(s, i)
       IN IF n > 0 THEN score_text \o ReplaceRatings(s, i + n, score_text)
                   ELSE <<s[i]>> \o ReplaceRatings(s, i + 1, score_text)

RECURSIVE RemoveRatings(_, _)
\* re.sub(r"\s*\b\d+(?:\.\d+)?/10\b", "", s)
RemoveRatings(s, i) ==
  IF i > Len(s) THEN <<>>
  ELSE LET e == SpaceEnd(s, i)
           n == RatingLen(s, e)
       IN IF n > 0 THEN RemoveRatings(s, e + n)
                   ELSE <<s[i]>> \o RemoveRatings(s, i + 1)

\* RoastValidator._fix_fake_ratings
_fix_fake_ratings(text, score) ==
  IF Truthy(score) THEN ReplaceRatings(text, 1, ScoreText(score[1]))
  ELSE RemoveRatings(text, 1)

\* category_keywords of _check_unverified_claims
CategoryKeywords(category) ==
  CASE category = "pacing" ->
         {<<"pacing">>, <<"slow">>, <<"dragging">>, <<"rushed">>}
    [] category = "characters" ->
         {<<"character">>, <<"protagonist">>, <<"unlikable">>, <<"shallow">>}
    [] category = "ending" ->
         {<<"ending">>, <<"finale">>, <<"conclusion">>,
          <<"fell", " ", "off">>}

\* s.lower().count(phrase), by the tables of word pairs of the analyzer
PhraseCount(s, phrase) ==
  Cardinality({i \in 1..Len(s) : PhraseAt(phrase, Lower(s), i)})

\* RoastValidator._check_unverified_claims; verified holds the categories of
\* review_context["verified_complaints"]
_check_unverified_claims(text, verified, category) ==
  IF /\ \E kw \in CategoryKeywords(category) : PhraseCount(text, kw) > 0
     /\ category \notin verified
    THEN <<[kind |-> "UNVERIFIED CLAIM", of |-> <<category>>]>>
    ELSE <<>>

\* the softeners of _soften_claim in the order of the dict: the literals
\* that each pattern matches after its optional "the ", and the replacement
Softeners(category) ==
  CASE category = "pacing" ->
         <<[lits |-> {<<"pacing", " ", v, " ", o>> :
                        v \in {"is", "feel", "feels"},
                        o \in {"like", "watching"}},
            the |-> TRUE,
            repl |-> <<"some", " ", "might", " ", "say", " ", "the", " ",
                       "pacing", " ", "feels", " ", "like">>],
           [lits |-> {<<"pacing", " ", v, " ", o>> :
                        v \in {"is", "was"},
                        o \in {"terrible", "awful", "bad"}},
            the |-> TRUE,
            repl |-> <<"the", " ", "pacing", " ", "isn", "'", "t", " ",
                       "for", " ", "everyone">>]>>
    [] category = "characters" ->
         <<[lits |-> {<<c, " ", v, " ", o>> :
                        c \in {"character", "characters"},
                        v \in {"are", "is"},
                        o \in {"unlikable", "shallow", "bland"}},
            the |-> TRUE,
            repl |-> <<"the", " ", "characters", " ", "might", " ", "not",
                       " ", "click", " ", "with", " ", "everyone">>],
           [lits |-> {<<"bar", " ", "for", " ", "likeability">>},
            the |-> FALSE,
            repl |-> <<"character", " ", "appeal", " ", "varies">>]>>
    [] category = "ending" ->
         <<[lits |-> {<<"ending", " ", "fell", " ", "off">>,
                      <<"ending", " ", "was", " ", "disappointing">>},
            the |-> TRUE,
            repl |-> <<"the", " ", "ending", " ", "divided", " ", "some",
                       " ", "viewers">>],
           [lits |-> {<<"finale", " ", "fell", " ", "off">>,
                      <<"finale", " ", "was", " ", "disappointing">>},
            the |-> TRUE,
            repl |-> <<"the", " ", "finale", " ", "got", " ", "mixed", " ",
                       "reactions">>]>>

\* the number of lexemes that the softener p matches at position i
SoftenerLen(p, s, i) ==
  LET long == {<<"the", " ">> \o lit : lit \in p.lits}
  IN IF p.the /\ \E lit \in long : LitAt(s, i, lit, TRUE)
       THEN Len(CHOOSE lit \in long : LitAt(s, i, lit, TRUE))
     ELSE IF \E lit \in p.lits : LitAt(s, i, lit, TRUE)
       THEN Len(CHOOSE lit \in p.lits : LitAt(s, i, lit, TRUE))
     ELSE 0

RECURSIVE SoftenFrom(_, _, _)
\* re.sub(pattern, replacement, s, flags=re.IGNORECASE)
SoftenFrom(p, s, i) ==
  IF i > Len(s) THEN <<>>
  ELSE LET n == SoftenerLen(p, s, i)
       IN IF n > 0 THEN p.repl \o SoftenFrom(p, s, i + n)
                   ELSE <<s[i]>> \o SoftenFrom(p, s, i + 1)

RECURSIVE SoftenAll(_, _)
SoftenAll(softeners, s) ==
  IF softeners = <<>> THEN s
  ELSE SoftenAll(Tail(softeners), SoftenFrom(Head(softeners), s, 1))

\* RoastValidator._soften_claim
_soften_claim(text, category) == SoftenAll(Softeners(category), text)

MEME_LIMIT == 3

\* meme_phrases of _check_meme_overuse
MemePhrases ==
  <<<<"cope">>, <<"copium">>, <<"mid">>, <<"fell", " ", "off">>,
    <<"peaked">>, <<"carried", " ", "by">>>>

RECURSIVE SumCounts(_, _)
SumCounts(s, phrases) ==
  IF phrases = <<>> THEN 0
  ELSE PhraseCount(s, Head(phrases)) + SumCounts(s, Tail(phrases))

\* RoastValidator._check_meme_overuse
_check_meme_overuse(text) ==
  LET meme_count == SumCounts(text, MemePhrases)
  IN IF meme_count >= MEME_LIMIT
       THEN <<[kind |-> "MEME OVERUSE", of |-> <<meme_count>>]>>
       ELSE <<>>

RECURSIVE CheckClaims(_, _, _)
\* the checks of the categories in order, each on the text that the checks
\* before it have softened
CheckClaims(categories, verified, result) ==
  IF categories = <<>> THEN result
  ELSE LET found == _check_unverified_claims(result.roast, verified,
                                             Head(categories))
       IN CheckClaims(Tail(categories), verified,
                      IF found # <<>>
                        THEN [roast |-> _soften_claim(result.roast,
                                                      Head(categories)),
                              issues |-> result.issues \o found]
                        ELSE result)

\* RoastValidator.validate_and_fix_roast: score is anime_data.get("score"),
\* context is <<>> for a review_context of None or {} and else holds the
\* categories of its verified complaints
validate_and_fix_roast(text, score, context) ==
  LET rating_issues == _check_fake_ratings(text, score)
      rated == IF rating_issues # <<>>
                 THEN [roast |-> _fix_fake_ratings(text, score),
                       issues |-> rating_issues]
                 ELSE [roast |-> text, issues |-> <<>>]
      checked == IF context # <<>>
                   THEN CheckClaims(<<"pacing", "characters", "ending">>,
                                    context[1], rated)
                   ELSE rated
  IN [roast |-> checked.roast,
      issues |-> checked.issues \o _check_meme_overuse(checked.roast)]

(***************************************************************************)
(* Inputs of the model: request bodies, collaborator results and generator *)
(* responses.                                                              *)
(***************************************************************************)
NameNaruto == <<"Naruto">>
NameFate == <<"Fate", "/", "stay", " ", "night">>
NamePadded == <<" ", "Naruto", " ">>
NameEmpty == <<>>
NameBlank == <<" ", " ">>
NameTooLong == <<LongWord>>
NamePaddedFull == <<" ", FullWord>>
NameSql == <<"a", ";", " ", "DROP">>
NameQuote == <<"x", "'", " ", "OR", " ", "1">>
NameDashes == <<"x", "-", "-">>
NameBlockComment == <<"a", "/", "*", "x", "*", "/">>
NameScript == <<"<", "script", ">">>
NameJavascript == <<"javascript", ":", "alert">>
NameHandler == <<"onload", " ", "=", "x">>
NameTab == <<"a", "\t", "b">>

ValidNames == {NameNaruto, NameFate, NamePadded}

InvalidNames ==
  {NameEmpty, NameBlank, NameTooLong, NamePaddedFull, NameSql, NameQuote,
   NameDashes, NameBlockComment, NameScript, NameJavascript, NameHandler,
   NameTab}

\* roast_request.anime_id: 0 stands for a missing id (None and 0 are both
\* false in "if roast_request.anime_id")
AnimeIds == {0, 1}

\* client.get_anime_by_id: None (not found or request failed) or the data,
\* of which the model keeps the score (averageScore, 0 to 100)
AnimeResults == {<<>>, <<[score |-> 80]>>}

\* client.get_anime_reviews: the number of reviews ([] when the request
\* failed), or reviews that make the analyzer raise (body and summary null)
ReviewResults == {"0", "4", "15", "malformed"}

Member(key, val) == <<"\"", key, "\"", ":", " ">> \o val

\* a STATS object that gives every key the value val
FullStats(val) ==
  <<"{">> \o Member("horniness_level", val)
    \o <<",", " ">> \o Member("plot_armor_thickness", val)
    \o <<",", "\n">> \o Member("filler_hell", val)
    \o <<",", " ">> \o Member("power_creep", val)
    \o <<",", " ">> \o Member("cringe_factor", val)
    \o <<",", " ">> \o Member("fan_toxicity", val) \o <<"}">>

Labelled(roast, stats) ==
  <<"ROAST", ":", "\n">> \o roast \o <<"\n", "\n", "STATS", ":", "\n">> \o stats

RespClean == Labelled(<<"foo", " ", "bar">>, FullStats(<<"10">>))
RespPercent ==
  Labelled(<<"foo", " ", "100", "%", " ", "bar", " ", ".">>, FullStats(<<"12">>))
RespReviews ==
  Labelled(<<"foo", " ", "4", " ", "REVIEWS">>, FullStats(<<"15">>))
RespNoMarker == <<"foo", " ", "bar", ".">>
RespHigh ==
  Labelled(<<"bar">>, <<"{">> \o Member("horniness_level", <<"150">>) \o <<"}">>)
RespNegative ==
  Labelled(<<"bar">>, <<"{">> \o Member("filler_hell", <<"-", "5">>) \o <<"}">>)
RespPartial ==
  Labelled(<<"bar", " ", "foo">>,
           <<"{">> \o Member("power_creep", <<"4">>) \o <<"}">>)
RespBadJson == Labelled(<<"foo">>, <<"{", "oops", "}">>)
RespString ==
  Labelled(<<"bar">>,
           <<"{">> \o Member("cringe_factor", <<"\"", "high", "\"">>) \o <<"}">>)
RespBlank == <<" ", "\n">>
RespRating ==
  Labelled(<<"foo", " ", "5", "/", "10", " ", "bar">>, FullStats(<<"10">>))

\* response.text of a generator call that returns text
Responses ==
  {RespClean, RespPercent, RespReviews, RespNoMarker, RespHigh, RespNegative,
   RespPartial, RespBadJson, RespString, RespBlank}

\* what stands before the STATS: marker of a response, and the roast in it
ParseHeads ==
  {[lex |-> <<"ROAST", ":", "\n", "foo", " ", "bar", "\n", "\n">>,
    roast |-> <<"foo", " ", "bar">>],
   [lex |-> <<" ", "foo", " ">>, roast |-> <<"foo">>],
   [lex |-> <<>>, roast |-> <<>>],
   [lex |-> <<"foo", " ", "ROAST", ":", " ">>,
    roast |-> <<"foo", " ", "ROAST", ":">>]}

\* what stands behind the STATS: marker, and the object json.loads returns
\* for the first {...} in it (<<>>: there is none, or it is not JSON)
ParseTails ==
  {[lex |-> <<"\n">> \o FullStats(<<"10">>),
    stats |-> <<[k \in StatKeys |-> IntVal(10)]>>],
   [lex |-> <<"\n", "{">> \o Member("filler_hell", <<"5">>) \o <<"}", " ", "oops">>,
    stats |-> <<[k \in {"filler_hell"} |-> IntVal(5)]>>],
   [lex |-> <<"{", " ">> \o Member("filler_hell", <<"-", "5">>) \o <<" ", "}">>,
    stats |-> <<[k \in {"filler_hell"} |-> IntVal(0 - 5)]>>],
   [lex |-> <<"{">> \o Member("cringe_factor", <<"\"", "high", "\"">>) \o <<"}">>,
    stats |-> <<[k \in {"cringe_factor"} |-> StrVal]>>],
   [lex |-> <<"{", " ", "}">>, stats |-> <<EmptyDict>>],
   [lex |-> <<"{", "}">>, stats |-> <<>>],
   [lex |-> <<" ", "{", "oops", "}">>, stats |-> <<>>],
   [lex |-> <<" ", "foo">>, stats |-> <<>>],
   [lex |-> <<"{", "oops", "}", " ">> \o FullStats(<<"10">>), stats |-> <<>>],
   [lex |-> <<"{">> \o Member("filler_hell", <<"5">>)
              \o <<"}", "STATS", ":">> \o FullStats(<<"10">>),
    stats |-> <<[k \in {"filler_hell"} |-> IntVal(5)]>>]}

\* the responses that are parsed: with the marker, and without it
ParseCases ==
  {[text |-> h.lex \o <<"STATS", ":">> \o t.lex, roast |-> h.roast, stats |-> t.stats] :
     h \in ParseHeads, t \in ParseTails}
  \cup {[text |-> x, roast |-> <<>>, stats |-> <<>>] :
          x \in {RespNoMarker, RespBlank, <<"STATS", " ", ":", " ">> \o FullStats(<<"10">>),
                 FullStats(<<"10">>)}}

\* ratings out of 10 as a roast may claim them, with their value in tenths
RatingTokens ==
  {[lex |-> <<"9", ".", "9", "/", "10">>, tenths |-> 99],
   [lex |-> <<"5", "/", "10">>, tenths |-> 50],
   [lex |-> <<"5", ".", "1", "/", "10">>, tenths |-> 51],
   [lex |-> <<"6", ".", "1", "/", "10">>, tenths |-> 61],
   [lex |-> <<"8", ".", "3", "/", "10">>, tenths |-> 83],
   [lex |-> <<"4", "/", "10">>, tenths |-> 40],
   [lex |-> <<"10", "/", "10">>, tenths |-> 100]}

\* the text in front of a rating, and what is left of it when the rating is
\* removed with the whitespace before it
RatingLeads ==
  {[lex |-> <<>>, bare |-> <<>>],
   [lex |-> <<"rated", " ">>, bare |-> <<"rated">>]}

\* the text between two ratings
RatingLinks ==
  {[lex |-> <<" ", "and", " ", " ">>, bare |-> <<" ", "and">>],
   [lex |-> <<",">>, bare |-> <<",">>]}

\* the text after the ratings: soft is the text once the pacing claim is
\* softened, pacing tells that it mentions pacing, memes counts its meme
\* phrases
RatingTails ==
  {[lex |-> <<>>, soft |-> <<>>, pacing |-> FALSE, memes |-> 0],
   [lex |-> <<" ", "bar", ".">>, soft |-> <<" ", "bar", ".">>,
    pacing |-> FALSE, memes |-> 0],
   [lex |-> <<".", " ", "The", " ", "pacing", " ", "is", " ", "terrible", "!">>,
    soft |-> <<".", " ", "the", " ", "pacing", " ", "isn", "'", "t", " ",
               "for", " ", "everyone", "!">>,
    pacing |-> TRUE, memes |-> 0],
   [lex |-> <<" ", "slowly">>, soft |-> <<" ", "slowly">>,
    pacing |-> TRUE, memes |-> 0],
   [lex |-> <<" ", "mid", ",", " ", "mid", " ", "cope">>,
    soft |-> <<" ", "mid", ",", " ", "mid", " ", "cope">>,
    pacing |-> FALSE, memes |-> 3]}

\* the ratings of a roast, each with the text in front of it
RatingParts ==
  {<<>>}
  \cup {<<[lead |-> a, token |-> t]>> : a \in RatingLeads, t \in RatingTokens}
  \cup {<<[lead |-> a, token |-> t], [lead |-> b, token |-> u]>> :
          a \in RatingLeads, t \in RatingTokens,
          b \in RatingLinks, u \in RatingTokens}

RECURSIVE PartsText(_)
PartsText(parts) ==
  IF parts = <<>> THEN <<>>
  ELSE Head(parts).lead.lex \o Head(parts).token.lex \o PartsText(Tail(parts))

\* the roasts that are validated: at most two ratings and a tail
ValidatorCases ==
  {[text |-> PartsText(parts) \o tail.lex, parts |-> parts, tail |-> tail] :
     parts \in RatingParts, tail \in RatingTails}

\* anime_data.get("score"): missing, 0, or the average score out of 100
ValidatorScores == {<<>>, <<0>>, <<51>>, <<73>>, <<100>>}

\* review_context: None, or the categories of its verified complaints
ValidatorContexts == {<<>>, <<{}>>, <<{"pacing"}>>}

\* the wall clock advances by one of these numbers of seconds
TickSteps == {CLEANUP_INTERVAL + 1, TTL_SECONDS + 1}

(***************************************************************************)
(* generate_roast (main.py): the state of the request handlers.            *)
(***************************************************************************)
VARIABLES
  cache,             \* _cache._cache
  last_cleanup,      \* _cache._last_cleanup
  now,               \* datetime.now(), in seconds
  ticks,             \* how often the clock has advanced
  pc,                \* where each request handler is suspended
  body,              \* the request body: [anime_name, anime_id]
  anime_data,        \* <<>> or <<data>>
  enhanced_context,  \* <<>> or <<review context>>
  attempt,           \* the loop variable of the retry loop
  prompt,            \* <<>> or <<[base, corrective]>>
  roast_text,        \* <<>> or <<text>>
  stats_data,        \* <<>> or <<dict>>
  response,          \* <<>> or <<[status, detail, error, content]>>
  calls,             \* the calls each request has made to its collaborators
  given,             \* <<>> or <<the arguments of a call of a pure function>>
  returned,          \* <<>> or <<what that call returned>>
  comments,          \* the rows of the table comments, by id
  comment_votes      \* the rows of the table comment_votes, oldest first

vars ==
  <<cache, last_cleanup, now, ticks, pc, body, anime_data, enhanced_context,
    attempt, prompt, roast_text, stats_data, response, calls, given,
    returned, comments, comment_votes>>

Req == 1..NumReq

Clients == 1..NumClients

\* what a handler has done so far: the number of its calls to the AniList
\* client, to _cache.get, to _cache.set and to the generator, the number of
\* generator calls that returned text, its cache key, the requests that had
\* returned when it arrived, the requests whose cache entry its _cache.set
\* replaced, the times of its _cache.get and _cache.set, the number of worker
\* threads that are executing model.generate_content for it, and how many of
\* these the handler has stopped waiting for (asyncio.wait_for timed out; the
\* thread started by asyncio.to_thread cannot be cancelled)
NoCalls ==
  [fetch |-> 0, cache_get |-> 0, cache_set |-> 0, generate |-> 0, text |-> 0,
   key |-> <<>>, after |-> {}, over |-> {}, get_at |-> 0, set_at |-> 0,
   running |-> 0, abandoned |-> 0]

\* the comments of the model, each written by another client
CommentIds == {1, 2}

\* hash_ip(client_ip) of the clients that vote
Voters == {"ip1", "ip2", "ip3"}

\* Comment.ip_hash: the client that wrote the comment
AuthorOf(id) == IF id = 1 THEN "ip1" ELSE "ip2"

\* Comment(...) as create_comment stores it: the counters at their defaults
NewComment(ip_hash) ==
  [ip_hash |-> ip_hash, upvotes |-> 0, downvotes |-> 0, score |-> 0]

Init ==
  /\ cache = <<>>
  /\ last_cleanup = 0
  /\ now = 0
  /\ ticks = 0
  /\ pc = [r \in Req |-> "idle"]
  /\ body = [r \in Req |-> [anime_name |-> <<>>, anime_id |-> 0]]
  /\ anime_data = [r \in Req |-> <<>>]
  /\ enhanced_context = [r \in Req |-> <<>>]
  /\ attempt = [r \in Req |-> 0]
  /\ prompt = [r \in Req |-> <<>>]
  /\ roast_text = [r \in Req |-> <<>>]
  /\ stats_data = [r \in Req |-> <<>>]
  /\ response = [r \in Req |-> <<>>]
  /\ calls = [r \in Req |-> NoCalls]
  /\ given = <<>>
  /\ returned = <<>>
  /\ comments = [id \in CommentIds |-> NewComment(AuthorOf(id))]
  /\ comment_votes = <<>>

\* the validated anime_name of the handler
AnimeName(r) == Strip(body[r].anime_name)

\* generate_cache_key(anime_name, enhanced_context): the key data that is
\* hashed ("none" when there is no review context)
generate_cache_key(anime_name, review_context) ==
  [name |-> anime_name,
   context |-> IF review_context # <<>> THEN review_context ELSE <<>>]

CacheKey(r) == generate_cache_key(AnimeName(r), enhanced_context[r])

ErrorResponse(status, detail, error) ==
  [status |-> status, detail |-> detail, error |-> error, content |-> <<>>]

\* RoastResponse(..., success=True)
RoastResponse(content) ==
  [status |-> 200, detail |-> "", error |-> "", content |-> <<content>>]

\* the handler of r ends with the response resp; its local variables are gone
Respond(r, resp) ==
  /\ pc' = [pc EXCEPT ![r] = "done"]
  /\ response' = [response EXCEPT ![r] = <<resp>>]
  /\ anime_data' = [anime_data EXCEPT ![r] = <<>>]
  /\ enhanced_context' = [enhanced_context EXCEPT ![r] = <<>>]
  /\ attempt' = [attempt EXCEPT ![r] = 0]
  /\ prompt' = [prompt EXCEPT ![r] = <<>>]
  /\ roast_text' = [roast_text EXCEPT ![r] = <<>>]
  /\ stats_data' = [stats_data EXCEPT ![r] = <<>>]

\* the handler of r is suspended at the await named by where
Suspend(r, where) ==
  /\ pc' = [pc EXCEPT ![r] = where]
  /\ UNCHANGED response

\* except Exception as e: ... raise HTTPException(status_code=500, ...)
UnexpectedError(error) ==
  ErrorResponse(500, "Failed to generate roast. Please try again later.", error)

(***************************************************************************)
(* A request arrives: the body is validated by RoastRequest, then the      *)
(* handler runs up to its first await.  The handlers are numbered in the   *)
(* order in which their requests arrive.                                   *)
(***************************************************************************)
Receive(r, b) ==
  /\ pc[r] = "idle"
  /\ \A p \in Req : p < r => pc[p] # "idle"
  /\ body' = [body EXCEPT ![r] = b]
  /\ calls' = [calls EXCEPT ![r].after = {p \in Req : pc[p] = "done"}]
  /\ IF ~RoastRequestValid(b.anime_name)
       THEN Respond(r, ErrorResponse(422, "request validation error",
                                     "RequestValidationError"))
     ELSE IF validate_anime_name(Strip(b.anime_name)) # "ok"
       THEN Respond(r, ErrorResponse(400,
                         validate_anime_name(Strip(b.anime_name)), "HTTP error"))
     ELSE /\ Suspend(r, IF b.anime_id # 0 THEN "get_anime" ELSE "cache_get")
          /\ UNCHANGED <<anime_data, enhanced_context, attempt, prompt,
                         roast_text, stats_data>>
  /\ UNCHANGED <<cache, last_cleanup, now, ticks>>
  /\ UNCHANGED <<given, returned, comments, comment_votes>>

\* anime_data = await client.get_anime_by_id(roast_request.anime_id)
FetchAnime(r, result) ==
  /\ pc[r] = "get_anime"
  /\ anime_data' = [anime_data EXCEPT ![r] = result]
  /\ calls' = [calls EXCEPT ![r].fetch = @ + 1]
  /\ Suspend(r, "get_reviews")
  /\ UNCHANGED <<cache, last_cleanup, now, ticks, body, enhanced_context,
                 attempt, prompt, roast_text, stats_data>>
  /\ UNCHANGED <<given, returned, comments, comment_votes>>

\* EnhancedReviewAnalyzer.format_enhanced_review_context(reviews, anime_data)
ReviewContext(reviews) == [review_count |-> reviews]

\* reviews = await client.get_anime_reviews(...), the analysis of the
\* reviews inside the try block, and client.close()
FetchReviews(r, reviews) ==
  /\ pc[r] = "get_reviews"
  /\ calls' = [calls EXCEPT ![r].fetch = @ + 1]
  /\ enhanced_context' =
       [enhanced_context EXCEPT ![r] =
          IF reviews # "0" /\ anime_data[r] # <<>> /\ reviews # "malformed"
            THEN <<ReviewContext(reviews)>> ELSE <<>>]
  /\ Suspend(r, "cache_get")
  /\ UNCHANGED <<cache, last_cleanup, now, ticks, body, anime_data,
                 attempt, prompt, roast_text, stats_data>>
  /\ UNCHANGED <<given, returned, comments, comment_votes>>

\* generate_roast_and_stats_prompt(anime_name, anime_data, enhanced_context)
generate_roast_and_stats_prompt(anime_name, data, review_context) ==
  [base |-> <<anime_name, data, review_context>>, corrective |-> 0]

\* cached_response = await _cache.get(cache_key), and either the cached
\* response is returned or the prompt is built and the retry loop entered
CacheLookup(r) ==
  LET got == CacheGet(cache, last_cleanup, CacheKey(r), now,
                      TTL_SECONDS, CLEANUP_INTERVAL)
  IN /\ pc[r] = "cache_get"
     /\ cache' = got.cache
     /\ last_cleanup' = got.last_cleanup
     /\ calls' = [calls EXCEPT ![r].cache_get = @ + 1,
                               ![r].key = <<CacheKey(r)>>,
                               ![r].get_at = now]
     /\ IF got.value # <<>>
          THEN Respond(r, RoastResponse(got.value[1]))
          ELSE /\ prompt' = [prompt EXCEPT ![r] =
                    <<generate_roast_and_stats_prompt(
                        AnimeName(r), anime_data[r], enhanced_context[r])>>]
               /\ attempt' = [attempt EXCEPT ![r] = 0]
               /\ Suspend(r, "generate")
               /\ UNCHANGED <<anime_data, enhanced_context, roast_text,
                              stats_data>>
     /\ UNCHANGED <<now, ticks, body>>
     /\ UNCHANGED <<given, returned, comments, comment_votes>>

\* GenerateCall that does not wait for the call in progress
GenerateCallParallel(r) ==
  /\ pc[r] \in {"generate", "waiting"}
  /\ calls[r].generate <= MAX_ROAST_RETRIES
  /\ calls' = [calls EXCEPT ![r].generate = @ + 1, ![r].running = @ + 1]
  /\ Suspend(r, "waiting")
  /\ UNCHANGED <<cache, last_cleanup, now, ticks, body, anime_data,
                 enhanced_context, attempt, prompt, roast_text, stats_data>>
  /\ UNCHANGED <<given, returned, comments, comment_votes>>

\* asyncio.wait_for(asyncio.to_thread(model.generate_content, prompt), ...)
\* is started
GenerateCall(r) ==
  /\ pc[r] = "generate"
  /\ calls' = [calls EXCEPT ![r].generate = @ + 1, ![r].running = @ + 1]
  /\ Suspend(r, "waiting")
  /\ UNCHANGED <<cache, last_cleanup, now, ticks, body, anime_data,
                 enhanced_context, attempt, prompt, roast_text, stats_data>>
  /\ UNCHANGED <<given, returned, comments, comment_votes>>

\* "continue": the next iteration of "for attempt in range(max_retries + 1)",
\* or the code after the loop, where roast_text is still None
Continue(r, prompt1) ==
  IF attempt[r] + 1 < MAX_ROAST_RETRIES + 1
    THEN /\ attempt' = [attempt EXCEPT ![r] = @ + 1]
         /\ prompt' = [prompt EXCEPT ![r] = prompt1]
         /\ Suspend(r, "generate")
         /\ UNCHANGED <<anime_data, enhanced_context, roast_text, stats_data>>
    ELSE Respond(r, ErrorResponse(500,
           "Failed to generate a valid roast after multiple attempts",
           "HTTP error"))

\* GenerateTimeout that calls the generator again without counting the attempt
GenerateTimeoutUncounted(r) ==
  /\ pc[r] = "waiting"
  /\ Suspend(r, "generate")
  /\ calls' = [calls EXCEPT ![r].abandoned = @ + 1]
  /\ UNCHANGED <<cache, last_cleanup, now, ticks, body, anime_data,
                 enhanced_context, attempt, prompt, roast_text, stats_data>>
  /\ UNCHANGED <<given, returned, comments, comment_votes>>

\* GenerateTimeout that gives up one attempt early
GenerateTimeoutEarly(r) ==
  /\ pc[r] = "waiting"
  /\ IF attempt[r] >= MAX_ROAST_RETRIES - 1
       THEN Respond(r, ErrorResponse(504,
              "AI generation timed out. Please try again.", "HTTP error"))
       ELSE Continue(r, prompt[r])
  /\ calls' = [calls EXCEPT ![r].abandoned = @ + 1]
  /\ UNCHANGED <<cache, last_cleanup, now, ticks, body>>
  /\ UNCHANGED <<given, returned, comments, comment_votes>>

\* except asyncio.TimeoutError
GenerateTimeout(r) ==
  /\ pc[r] = "waiting"
  /\ IF attempt[r] = MAX_ROAST_RETRIES
       THEN Respond(r, ErrorResponse(504,
              "AI generation timed out. Please try again.", "HTTP error"))
       ELSE Continue(r, prompt[r])
  /\ calls' = [calls EXCEPT ![r].abandoned = @ + 1]
  /\ UNCHANGED <<cache, last_cleanup, now, ticks, body>>
  /\ UNCHANGED <<given, returned, comments, comment_votes>>

\* GenerateEmpty that reports the empty response as a timeout
GenerateEmptyAsTimeout(r) ==
  /\ pc[r] = "waiting"
  /\ IF attempt[r] = MAX_ROAST_RETRIES
       THEN Respond(r, ErrorResponse(504,
              "AI generation timed out. Please try again.", "HTTP error"))
       ELSE Continue(r, prompt[r])
  /\ calls' = [calls EXCEPT ![r].running = @ - 1]
  /\ UNCHANGED <<cache, last_cleanup, now, ticks, body>>
  /\ UNCHANGED <<given, returned, comments, comment_votes>>

\* GenerateEmpty that goes on to the next iteration whatever the attempt
GenerateEmptyContinues(r) ==
  /\ pc[r] = "waiting"
  /\ Continue(r, prompt[r])
  /\ calls' = [calls EXCEPT ![r].running = @ - 1]
  /\ UNCHANGED <<cache, last_cleanup, now, ticks, body>>
  /\ UNCHANGED <<given, returned, comments, comment_votes>>

\* if not response or not response.text
GenerateEmpty(r) ==
  /\ pc[r] = "waiting"
  /\ IF attempt[r] = MAX_ROAST_RETRIES
       THEN Respond(r, ErrorResponse(500,
              "Failed to generate roast - empty response from AI",
              "HTTP error"))
       ELSE Continue(r, prompt[r])
  /\ calls' = [calls EXCEPT ![r].running = @ - 1]
  /\ UNCHANGED <<cache, last_cleanup, now, ticks, body>>
  /\ UNCHANGED <<given, returned, comments, comment_votes>>

\* GenerateRaises that retries after a quota error while attempts remain
GenerateRaisesRetried(r, exc) ==
  /\ pc[r] = "waiting"
  /\ IF exc = "quota" /\ attempt[r] < MAX_ROAST_RETRIES
       THEN Continue(r, prompt[r])
       ELSE Respond(r,
              CASE exc = "quota" ->
                     ErrorResponse(429,
                       "API rate limit reached. Please wait a minute before trying again.",
                       "Quota exceeded")
                [] exc = "invalid_argument" ->
                     ErrorResponse(400,
                       "Invalid request. Please check your input and try again.",
                       "Invalid argument")
                [] OTHER -> UnexpectedError("generator error"))
  /\ calls' = [calls EXCEPT ![r].running = @ - 1]
  /\ UNCHANGED <<cache, last_cleanup, now, ticks, body>>
  /\ UNCHANGED <<given, returned, comments, comment_votes>>

\* the generator raises: google_exceptions.ResourceExhausted,
\* google_exceptions.InvalidArgument or any other exception
GenerateRaises(r, exc) ==
  /\ pc[r] = "waiting"
  /\ Respond(r,
       CASE exc = "quota" ->
              ErrorResponse(429,
                "API rate limit reached. Please wait a minute before trying again.",
                "Quota exceeded")
         [] exc = "invalid_argument" ->
              ErrorResponse(400,
                "Invalid request. Please check your input and try again.",
                "Invalid argument")
         [] OTHER -> UnexpectedError("generator error"))
  /\ calls' = [calls EXCEPT ![r].running = @ - 1]
  /\ UNCHANGED <<cache, last_cleanup, now, ticks, body>>
  /\ UNCHANGED <<given, returned, comments, comment_votes>>

\* AddCorrective that leaves the prompt as it is
AddNothing(p) == p

\* added to the prompt before a retry
AddCorrective(p) == <<[p[1] EXCEPT !.corrective = @ + 1]>>

\* parse_roast_response(response.text) and RoastCleaner.clean_roast
ParseAndClean(text) ==
  LET parsed == parse_roast_response(text)
      current_roast == clean_roast(parsed.roast)
  IN [roast |-> current_roast, stats |-> parsed.stats,
      has_statistics |-> has_statistics(current_roast)]

\* generator responses whose roast may carry an N/10 rating
RatedResponses == {RespClean, RespRating}

\* ParseAndClean of the generator responses of the model
Current == [text \in Responses \cup RatedResponses |-> ParseAndClean(text)]

\* the generator returns text: parse, clean, then retry or leave the loop
\* and build AnimeStats
GenerateText(r, text) ==
  LET current_roast == Current[text].roast
      current_stats == Current[text].stats
  IN /\ pc[r] = "waiting"
     /\ IF Current[text].has_statistics /\ attempt[r] < MAX_ROAST_RETRIES
          THEN Continue(r, AddCorrective(prompt[r]))
          ELSE IF AnimeStatsValid(current_stats)
            THEN /\ roast_text' = [roast_text EXCEPT ![r] = <<current_roast>>]
                 /\ stats_data' = [stats_data EXCEPT ![r] = <<current_stats>>]
                 /\ Suspend(r, "cache_set")
                 /\ UNCHANGED <<anime_data, enhanced_context, attempt, prompt>>
            ELSE Respond(r, UnexpectedError("ValidationError"))
     /\ calls' = [calls EXCEPT ![r].text = @ + 1, ![r].running = @ - 1]
     /\ UNCHANGED <<cache, last_cleanup, now, ticks, body>>
     /\ UNCHANGED <<given, returned, comments, comment_votes>>

\* response_data of the success path
ResponseData(r) ==
  [anime_name |-> AnimeName(r),
   roast |-> roast_text[r][1],
   stats |-> AnimeStats(stats_data[r][1])]

\* await _cache.set(cache_key, response_data) and the return
CacheStore(r) ==
  /\ pc[r] = "cache_set"
  /\ cache' = CacheSet(cache, CacheKey(r), ResponseData(r), now, MAX_SIZE)
  /\ calls' = [calls EXCEPT
       ![r].cache_set = @ + 1,
       ![r].set_at = now,
       ![r].over = {p \in Req \ {r} : /\ calls[p].key = <<CacheKey(r)>>
                                       /\ calls[p].cache_set > 0}]
  /\ Respond(r, RoastResponse(ResponseData(r)))
  /\ UNCHANGED <<last_cleanup, now, ticks, body>>
  /\ UNCHANGED <<given, returned, comments, comment_votes>>

\* _cache.get raises: nothing in generate_roast catches it before the final
\* "except Exception"
CacheGetRaises(r) ==
  /\ pc[r] = "cache_get"
  /\ calls' = [calls EXCEPT ![r].cache_get = @ + 1,
                            ![r].key = <<CacheKey(r)>>,
                            ![r].get_at = now]
  /\ Respond(r, UnexpectedError("cache error"))
  /\ UNCHANGED <<cache, last_cleanup, now, ticks, body>>
  /\ UNCHANGED <<given, returned, comments, comment_votes>>

\* CacheSetRaises that raises after the entry has been written
CacheSetRaisesAfterWrite(r) ==
  /\ pc[r] = "cache_set"
  /\ cache' = CacheSet(cache, CacheKey(r), ResponseData(r), now, MAX_SIZE)
  /\ calls' = [calls EXCEPT ![r].cache_set = @ + 1, ![r].set_at = now]
  /\ Respond(r, UnexpectedError("cache error"))
  /\ UNCHANGED <<last_cleanup, now, ticks, body>>
  /\ UNCHANGED <<given, returned, comments, comment_votes>>

\* _cache.set raises: the same
CacheSetRaises(r) ==
  /\ pc[r] = "cache_set"
  /\ calls' = [calls EXCEPT ![r].cache_set = @ + 1, ![r].set_at = now]
  /\ Respond(r, UnexpectedError("cache error"))
  /\ UNCHANGED <<cache, last_cleanup, now, ticks, body>>
  /\ UNCHANGED <<given, returned, comments, comment_votes>>

\* a worker thread whose call the handler no longer waits for comes to the
\* end of model.generate_content; its result is dropped
ThreadEnds(r) ==
  /\ calls[r].abandoned > 0
  /\ calls' = [calls EXCEPT ![r].running = @ - 1, ![r].abandoned = @ - 1]
  /\ UNCHANGED <<cache, last_cleanup, now, ticks, pc, body, anime_data,
                 enhanced_context, attempt, prompt, roast_text, stats_data,
                 response>>
  /\ UNCHANGED <<given, returned, comments, comment_votes>>

\* await _cache.delete(key), by a task other than the request handlers
delete(key) ==
  /\ cache' = CacheDelete(cache, key)
  /\ UNCHANGED <<last_cleanup, now, ticks, pc, body, anime_data,
                 enhanced_context, attempt, prompt, roast_text, stats_data,
                 response, calls>>
  /\ UNCHANGED <<given, returned, comments, comment_votes>>

\* await clear_cache()
clear_cache ==
  /\ cache' = CacheClear(cache)
  /\ UNCHANGED <<last_cleanup, now, ticks, pc, body, anime_data,
                 enhanced_context, attempt, prompt, roast_text, stats_data,
                 response, calls>>
  /\ UNCHANGED <<given, returned, comments, comment_votes>>

(***************************************************************************)
(* A TimedCache(TTL_SECONDS, Capacity, CLEANUP_INTERVAL) of its own         *)
(* (SpecLru).  given keeps what the calls so far did to the keys: used is  *)
(* the time of the latest set or successful get of each stored key (-1 for *)
(* a key that was not stored after the last get or set), evicted are the   *)
(* keys that the last get or set evicted.                                  *)
(***************************************************************************)
Capacity == 2

MaxAccess == 1

LruKeys == {"k1", "k2", "k3"}

\* one second and the ttl
LruTickSteps == {1, TTL_SECONDS}

NoCall == [used |-> [k \in LruKeys |-> -1], evicted |-> {}]

LastCall == IF given = <<>> THEN NoCall ELSE given[1]

KeysOf(c) == {c[i].key : i \in 1..Len(c)}

\* the key was used at the time t, and the keys of c are the stored ones
UsedAfter(c, key, t) ==
  [k \in LruKeys |-> IF k \notin KeysOf(c) THEN -1
                     ELSE IF k = key THEN t
                     ELSE LastCall.used[k]]

\* await cache.get(key)
get(key) ==
  /\ KeyIndex(cache, key, 1) # 0 =>
       cache[KeyIndex(cache, key, 1)].access_count < MaxAccess
  /\ LET result == CacheGet(cache, last_cleanup, key, now, TTL_SECONDS,
                            CLEANUP_INTERVAL)
     IN /\ cache' = result.cache
        /\ last_cleanup' = result.last_cleanup
        /\ returned' = <<result.value>>
        /\ given' = <<[evicted |-> {},
                       used |-> UsedAfter(result.cache, key, now)]>>
  /\ UNCHANGED <<now, ticks, pc, body, anime_data, enhanced_context, attempt,
                 prompt, roast_text, stats_data, response, calls, comments,
                 comment_votes>>

\* await cache.set(key, data)
set(key, data) ==
  /\ cache' = CacheSet(cache, key, data, now, Capacity)
  /\ returned' = <<<<>>>>
  /\ given' = <<[evicted |-> KeysOf(cache) \ KeysOf(Evict(cache, Capacity)),
                 used |-> UsedAfter(CacheSet(cache, key, data, now, Capacity),
                                    key, now)]>>
  /\ UNCHANGED <<last_cleanup, now, ticks, pc, body, anime_data,
                 enhanced_context, attempt, prompt, roast_text, stats_data,
                 response, calls, comments, comment_votes>>

(***************************************************************************)
(* vote_comment (main.py): one request runs from the row lock to the       *)
(* commit, so it is one step (SpecVotes).                                  *)
(***************************************************************************)
RECURSIVE FirstVote(_, _, _, _)
\* db.query(CommentVote).filter(comment_id, ip_hash).first(): the position
\* of the row, 0 for None
FirstVote(rows, comment_id, ip_hash, i) ==
  IF i > Len(rows) THEN 0
  ELSE IF rows[i].comment_id = comment_id /\ rows[i].ip_hash = ip_hash THEN i
  ELSE FirstVote(rows, comment_id, ip_hash, i + 1)

\* comment.ip_hash == ip_hash
SelfVote(comment, ip_hash) == comment.ip_hash = ip_hash

\* Tallied that leaves the downvotes as they are
TalliedUpOnly(comment, up, down) ==
  [comment EXCEPT !.upvotes = @ + up,
                  !.score = (comment.upvotes + up) - comment.downvotes]

\* the counters of the comment moved by up and down, and the score set
Tallied(comment, up, down) ==
  [comment EXCEPT !.upvotes = @ + up, !.downvotes = @ + down,
                  !.score = (comment.upvotes + up) - (comment.downvotes + down)]

\* the body of vote_comment after the two checks: [comment, rows, user_vote]
CastVote(comment, rows, comment_id, ip_hash, vote_type) ==
  LET i == FirstVote(rows, comment_id, ip_hash, 1)
      was_up == i # 0 /\ rows[i].vote_type = 1
      removed == [comment |-> IF was_up THEN Tallied(comment, -1, 0)
                                        ELSE Tallied(comment, 0, -1),
                  rows |-> DeleteAt(rows, i), user_vote |-> 0]
  IN IF vote_type = 0
       THEN IF i # 0 THEN removed
            ELSE [comment |-> Tallied(comment, 0, 0), rows |-> rows,
                  user_vote |-> 0]
     ELSE IF i # 0
       THEN IF rows[i].vote_type = vote_type THEN removed
            ELSE [comment |-> IF was_up THEN Tallied(comment, -1, 1)
                                        ELSE Tallied(comment, 1, -1),
                  rows |-> [rows EXCEPT ![i].vote_type = vote_type],
                  user_vote |-> vote_type]
     ELSE [comment |-> IF vote_type = 1 THEN Tallied(comment, 1, 0)
                                        ELSE Tallied(comment, 0, 1),
           rows |-> Append(rows, [comment_id |-> comment_id,
                                  ip_hash |-> ip_hash,
                                  vote_type |-> vote_type]),
           user_vote |-> vote_type]

\* POST /api/comments/{comment_id}/vote by the client ip_hash
vote_comment(comment_id, ip_hash, vote_type) ==
  /\ given' = <<[op |-> "vote_comment",
                 args |-> [comment_id |-> comment_id, ip_hash |-> ip_hash,
                           vote_type |-> vote_type]]>>
  /\ IF comment_id \notin DOMAIN comments
       THEN /\ returned' = <<[status |-> 404]>>
            /\ UNCHANGED <<comments, comment_votes>>
     ELSE IF SelfVote(comments[comment_id], ip_hash)
       THEN /\ returned' = <<[status |-> 403]>>
            /\ UNCHANGED <<comments, comment_votes>>
     ELSE LET cast == CastVote(comments[comment_id], comment_votes,
                               comment_id, ip_hash, vote_type)
          IN /\ comments' = [comments EXCEPT ![comment_id] = cast.comment]
             /\ comment_votes' = cast.rows
             /\ returned' = <<[status |-> 200, comment_id |-> comment_id,
                               upvotes |-> cast.comment.upvotes,
                               downvotes |-> cast.comment.downvotes,
                               score |-> cast.comment.score,
                               user_vote |-> cast.user_vote]>>
  /\ UNCHANGED <<cache, last_cleanup, now, ticks, pc, body, anime_data,
                 enhanced_context, attempt, prompt, roast_text, stats_data,
                 response, calls>>

\* a pure function is called: its arguments and what it returned are kept
Apply(op, args, value) ==
  /\ given' = <<[op |-> op, args |-> args]>>
  /\ returned' = <<value>>
  /\ UNCHANGED <<cache, last_cleanup, now, ticks, pc, body, anime_data,
                 enhanced_context, attempt, prompt, roast_text, stats_data,
                 response, calls, comments, comment_votes>>

\* each of the following actions is one call, the first one, of a function
\* on one of the given inputs
CallExtract(texts, categories) ==
  /\ given = <<>>
  /\ \E text \in texts : \E category \in categories :
       Apply("extract_specific_complaint", [text |-> text, category |-> category],
             extract_specific_complaint(text, category))

CallAnalyze(texts, categories) ==
  /\ given = <<>>
  /\ \E text \in texts : \E category \in categories :
       Apply("analyze_sentiment_with_context",
             [text |-> text, category |-> category],
             analyze_sentiment_with_context(text, category))

CallIdentify(lists) ==
  /\ given = <<>>
  /\ \E reviews \in lists :
       Apply("identify_verified_criticisms", [reviews |-> reviews],
             identify_verified_criticisms(reviews))

CallBreakdown(lists) ==
  /\ given = <<>>
  /\ \E reviews \in lists :
       Apply("calculate_sentiment_breakdown", [reviews |-> reviews],
             calculate_sentiment_breakdown(reviews))

CallBuildContext(animes, review_contexts) ==
  /\ given = <<>>
  /\ \E anime \in animes : \E review_context \in review_contexts :
       Apply("build_context", [anime |-> anime, review_context |-> review_context],
             build_context(anime, review_context))

\* RoastCleaner.clean_roast is called on a text
CallClean(texts) ==
  /\ given = <<>>
  /\ \E text \in texts :
       Apply("clean_roast", [text |-> text, origin |-> <<>>], clean_roast(text))

\* RoastCleaner.clean_roast is called on the text it has returned
CallCleanAgain ==
  /\ given # <<>>
  /\ given[1].op = "clean_roast"
  /\ given[1].args.origin = <<>>
  /\ Apply("clean_roast",
           [text |-> returned[1], origin |-> <<given[1].args.text>>],
           clean_roast(returned[1]))

\* RoastCleaner.has_statistics is called on the text clean_roast has returned
CallHasStatistics ==
  /\ given # <<>>
  /\ given[1].op = "clean_roast"
  /\ given[1].args.origin = <<>>
  /\ Apply("has_statistics",
           [text |-> returned[1], origin |-> <<given[1].args.text>>],
           has_statistics(returned[1]))

\* parse_roast_response is called on the text of a response
CallParse(texts) ==
  /\ given = <<>>
  /\ \E text \in texts :
       Apply("parse_roast_response", [text |-> text], parse_roast_response(text))

\* RoastValidator.validate_and_fix_roast(roast_text, anime_data,
\* review_context)
CallValidate(cases, scores, contexts) ==
  /\ given = <<>>
  /\ \E c \in cases, score \in scores, context \in contexts :
       Apply("validate_and_fix_roast",
             [text |-> c.text, score |-> score, context |-> context],
             validate_and_fix_roast(c.text, score, context))

\* time passes
Tick(d) ==
  /\ ticks < MaxTicks
  /\ ticks' = ticks + 1
  /\ now' = now + d
  /\ UNCHANGED <<cache, last_cleanup, pc, body, anime_data, enhanced_context,
                 attempt, prompt, roast_text, stats_data, response, calls>>
  /\ UNCHANGED <<given, returned, comments, comment_votes>>

(***************************************************************************)
(* The specifications.  Each one lets the handlers reqs take the steps of  *)
(* the part of generate_roast it follows, on the inputs that part reads.   *)
(***************************************************************************)
Bodies == [anime_name : ValidNames \cup InvalidNames, anime_id : AnimeIds]

Exceptions == {"quota", "invalid_argument", "error"}

\* a request arrives, looks the cache up, stores its result
HandlerStep(reqs, bodies) ==
  \/ \E r \in reqs : \E b \in bodies : Receive(r, b)
  \/ \E r \in reqs : CacheLookup(r)
  \/ \E r \in reqs : CacheStore(r)

\* the generator is called and returns text
GeneratorStep(reqs, responses) ==
  \/ \E r \in reqs : GenerateCall(r)
  \/ \E r \in reqs : \E text \in responses : GenerateText(r, text)

\* the generator times out, returns nothing or raises
FailureStep(reqs) ==
  \/ \E r \in reqs : GenerateTimeout(r)
  \/ \E r \in reqs : GenerateEmpty(r)
  \/ \E r \in reqs : \E exc \in Exceptions : GenerateRaises(r, exc)

\* the metadata and review fetch
FetchStep(reqs) ==
  \/ \E r \in reqs : \E result \in AnimeResults : FetchAnime(r, result)
  \/ \E r \in reqs : \E reviews \in ReviewResults : FetchReviews(r, reviews)

\* the cache raises
FaultStep(reqs) ==
  \/ \E r \in reqs : CacheGetRaises(r)
  \/ \E r \in reqs : CacheSetRaises(r)

\* the retry loop: one anime, every generator outcome
RetryBodies == {[anime_name |-> NameNaruto, anime_id |-> 0]}

Next ==
  \/ HandlerStep(Clients, RetryBodies)
  \/ GeneratorStep(Clients, Responses)
  \/ FailureStep(Clients)

Spec == Init /\ [][Next]_vars

\* the cache: every handler, two anime, a generator that answers, a clock
\* that advances
CacheBodies ==
  {[anime_name |-> NameNaruto, anime_id |-> 0],
   [anime_name |-> NameFate, anime_id |-> 0]}

CacheResponses == {RespClean, RespPartial}

NextCache ==
  \/ HandlerStep(Req, CacheBodies)
  \/ GeneratorStep(Req, CacheResponses)
  \/ \E d \in TickSteps : Tick(d)

SpecCache == Init /\ [][NextCache]_vars

\* the request path: every request body, every fetch result, a generator
\* that answers
NextRequest ==
  \/ HandlerStep(Clients, Bodies)
  \/ FetchStep(Clients)
  \/ GeneratorStep(Clients, {RespClean})

SpecRequest == Init /\ [][NextRequest]_vars

\* the request path with a cache that can raise
NextFault ==
  \/ NextRequest
  \/ FaultStep(Clients)

SpecFault == Init /\ [][NextFault]_vars

\* the keys of the requests of CacheBodies
CacheKeys == {generate_cache_key(Strip(b.anime_name), <<>>) : b \in CacheBodies}

\* the cache under get and set of the handlers and delete and clear of other
\* tasks; every operation runs from "async with self._lock" to its return
\* without suspending, so each is one step
NextOps ==
  \/ HandlerStep(Req, CacheBodies)
  \/ GeneratorStep(Req, CacheResponses)
  \/ \E key \in CacheKeys : delete(key)
  \/ clear_cache

SpecOps == Init /\ [][NextOps]_vars

\* worker threads that the handlers no longer wait for run to their end
ThreadStep(reqs) == \E r \in reqs : ThreadEnds(r)

\* the retry loop with its worker threads
ThreadResponses == {RespClean, RespPercent}

NextThreads ==
  \/ HandlerStep(Clients, RetryBodies)
  \/ GeneratorStep(Clients, ThreadResponses)
  \/ FailureStep(Clients)
  \/ ThreadStep(Clients)

SpecThreads == Init /\ [][NextThreads]_vars

\* the review analyzer and the context builder, each function called on each
\* of its inputs
NextAnalyzer ==
  \/ CallExtract(ReviewTexts, CategorySet)
  \/ CallAnalyze(Sentences, CategorySet)
  \/ CallIdentify(ListsOf(ComplaintReviews))
  \/ CallBreakdown(ListsOf(RatedReviews))
  \/ CallBuildContext(AnimeData, ReviewContexts)

SpecAnalyzer == Init /\ [][NextAnalyzer]_vars

\* the functions on the generated text, each called on each of its inputs
NextText ==
  \/ CallClean(ShortTexts \cup CoveredTexts)
  \/ CallCleanAgain
  \/ CallHasStatistics
  \/ CallParse({c.text : c \in ParseCases})
  \/ CallValidate(ValidatorCases, ValidatorScores, ValidatorContexts)

SpecText == Init /\ [][NextText]_vars

\* one cache of Capacity entries under get, set, delete and clear, while the
\* clock advances; the data of a set is the time of the call, so that a set
\* at a later time stores other data
NextLru ==
  \/ \E key \in LruKeys : get(key)
  \/ \E key \in LruKeys : set(key, now)
  \/ \E key \in LruKeys : delete(key)
  \/ clear_cache
  \/ \E d \in LruTickSteps : Tick(d)

SpecLru == Init /\ [][NextLru]_vars

\* the clients vote on the comments and on the id 0, which has no row, one
\* request at a time
NextVotes ==
  \E comment_id \in CommentIds \cup {0}, ip_hash \in Voters,
     vote_type \in {-1, 0, 1} :
    vote_comment(comment_id, ip_hash, vote_type)

SpecVotes == Init /\ [][NextVotes]_vars

\* the path of a request that names its anime by id: the metadata fetch
\* gives the real score, the generator may answer with a rating
ScoredBodies == {[anime_name |-> NameNaruto, anime_id |-> 1]}

NextScored ==
  \/ HandlerStep(Clients, ScoredBodies)
  \/ FetchStep(Clients)
  \/ GeneratorStep(Clients, RatedResponses)

SpecScored == Init /\ [][NextScored]_vars

\* every way a request can end: a body that is refused, a generator that
\* answers with valid, out-of-range or malformed stats, times out, returns
\* nothing or raises, a cache that raises, while the clock advances
FailureBodies == CacheBodies \cup {[anime_name |-> NameScript, anime_id |-> 0]}

FailureResponses == {RespClean, RespHigh, RespString}

NextFailure ==
  \/ HandlerStep(Clients, FailureBodies)
  \/ GeneratorStep(Clients, FailureResponses)
  \/ FailureStep(Clients)
  \/ FaultStep(Clients)
  \/ \E d \in TickSteps : Tick(d)

SpecFailure == Init /\ [][NextFailure]_vars

\* the requests run to their end: a body that is accepted or refused, a
\* generator that answers with a clean roast, with a roast that keeps its
\* statistics or with stats out of range, times out, returns nothing or raises
LiveBodies == RetryBodies \cup {[anime_name |-> NameScript, anime_id |-> 0]}

LiveResponses == {RespClean, RespReviews, RespHigh}

NextLive ==
  \/ HandlerStep(Clients, LiveBodies)
  \/ GeneratorStep(Clients, LiveResponses)
  \/ FailureStep(Clients)

\* a step of the handler of r after its request has arrived: the await it is
\* suspended at completes
HandlerRuns(r) ==
  \/ CacheLookup(r)
  \/ CacheStore(r)
  \/ GenerateCall(r)
  \/ \E text \in LiveResponses : GenerateText(r, text)
  \/ GenerateTimeout(r)
  \/ GenerateEmpty(r)
  \/ \E exc \in Exceptions : GenerateRaises(r, exc)

\* the event loop resumes a handler whose await can complete: _cache.get and
\* _cache.set hold the lock for no await, and asyncio.wait_for ends every
\* generator call with a result, an exception or the timeout
SpecLive ==
  /\ Init /\ [][NextLive]_vars
  /\ \A r \in Clients : WF_vars(HandlerRuns(r))

(***************************************************************************)
(* What a finished request shows.                                          *)
(***************************************************************************)
Done(r) == pc[r] = "done"

\* the HTTP status of the response of a finished request
Status(r) == response[r][1].status

\* <<>> or <<[anime_name, roast, stats]>> of the response
Content(r) == response[r][1].content

Succeeded(r) == Done(r) /\ Status(r) = 200

\* r succeeded through generation: it missed the cache and stored its result
Generated(r) == Succeeded(r) /\ calls[r].cache_set = 1

\* the generator has been called for r as often as the loop allows
LastAttempt(r) == calls[r].generate = MAX_ROAST_RETRIES + 1

\* r made no call to a collaborator
NoDownstream(r) ==
  /\ calls[r].fetch = 0
  /\ calls[r].cache_get = 0
  /\ calls[r].cache_set = 0
  /\ calls[r].generate = 0

(***************************************************************************)
(* The retry loop (Spec).                                                  *)
(***************************************************************************)
\* C1: whatever the generator does on each attempt, a request calls it at
\* most MAX_ROAST_RETRIES + 1 = 3 times.
C1_AtMostThreeCalls ==
  /\ MAX_ROAST_RETRIES + 1 = 3
  /\ \A r \in Req : calls[r].generate <= MAX_ROAST_RETRIES + 1

\* a request that missed the cache has ended after three generator calls
C1_Witness ==
  \E r \in Req : Done(r) /\ calls[r].cache_get = 1 /\ calls[r].generate = 3

\* C2: a timeout of the last allowed generator call ends the request with
\* 504, without a roast in the response and without a change of the cache,
\* and such a request never stores anything; a timeout of an earlier call
\* raises no failure: the handler goes on to the next attempt and is about to
\* call the generator again.
C2_Timeout ==
  /\ [](\A r \in Req : Done(r) /\ Status(r) = 504 =>
          Content(r) = <<>> /\ calls[r].cache_set = 0)
  /\ [][\A r \in Req : GenerateTimeout(r) =>
          IF LastAttempt(r)
            THEN /\ pc'[r] = "done"
                 /\ response'[r][1].status = 504
                 /\ response'[r][1].content = <<>>
                 /\ cache' = cache
            ELSE /\ pc'[r] = "generate"
                 /\ response'[r] = <<>>
                 /\ attempt'[r] = attempt[r] + 1
                 /\ calls'[r].generate < MAX_ROAST_RETRIES + 1]_vars

\* one request ended with 504 after three calls while another one, which also
\* lost a call without text, succeeded
C2_Witness ==
  \E r, q \in Req :
    /\ Done(r) /\ Status(r) = 504 /\ calls[r].generate = 3
    /\ Succeeded(q) /\ calls[q].generate = 2 /\ calls[q].text = 1

\* C3: when the generator returns text, the handler goes back to the
\* generator, with one more corrective instruction in the prompt and nothing
\* kept of the text, exactly when the cleaned text has statistics and
\* attempts remain; on the last attempt the cleaned text is accepted although
\* it has statistics, and the request that accepted a text answers 200 with
\* that text; the only error a returned text can end in is the validation of
\* its STATS values.
C3_RetryOnStatistics ==
  /\ [][\A r \in Req : \A text \in Responses : GenerateText(r, text) =>
          LET cur == Current[text]
              again == cur.has_statistics /\ ~LastAttempt(r)
          IN /\ again <=> pc'[r] = "generate"
             /\ again =>
                  /\ prompt'[r][1].corrective = prompt[r][1].corrective + 1
                  /\ prompt'[r][1].base = prompt[r][1].base
                  /\ roast_text'[r] = <<>>
                  /\ response'[r] = <<>>
             /\ ~again /\ AnimeStatsValid(cur.stats) =>
                  /\ pc'[r] = "cache_set"
                  /\ roast_text'[r] = <<cur.roast>>
             /\ pc'[r] = "done" => ~AnimeStatsValid(cur.stats)]_vars
  /\ [][\A r \in Req : CacheStore(r) =>
          /\ response'[r][1].status = 200
          /\ response'[r][1].content[1].roast = roast_text[r][1]]_vars

\* a request succeeded on its third attempt with a roast that still has
\* statistics
C3_Witness ==
  \E r \in Req :
    /\ Succeeded(r) /\ calls[r].generate = 3 /\ calls[r].text = 3
    /\ has_statistics(Content(r)[1].roast)

C7_QuotaNotRetried ==
  [][\A r \in Req :
       /\ GenerateRaises(r, "quota") =>
            /\ pc'[r] = "done"
            /\ response'[r][1].status = 429
            /\ response'[r][1].error = "Quota exceeded"
       /\ GenerateRaises(r, "invalid_argument") =>
            /\ pc'[r] = "done"
            /\ response'[r][1].status = 400
            /\ response'[r][1].error = "Invalid argument"
       /\ Done(r) => pc'[r] = "done" /\ calls'[r].generate = calls[r].generate
       /\ (GenerateTimeout(r) \/ GenerateEmpty(r)) /\ ~LastAttempt(r) =>
            pc'[r] = "generate"]_vars

\* a quota error on the first call and a malformed argument on the second
\* ended their requests while attempts remained
C7_Witness ==
  \E r, q \in Req :
    /\ Done(r) /\ Status(r) = 429 /\ calls[r].generate = 1
    /\ Done(q) /\ Status(q) = 400 /\ calls[q].generate = 2
    /\ response[q][1].error = "Invalid argument"

\* max(0, min(100, v))
Clamp(v) == IF v < STAT_MIN THEN STAT_MIN ELSE IF v > STAT_MAX THEN STAT_MAX ELSE v

\* every value of the parsed STATS object is a whole number
AllInts(stats) == \A k \in DOMAIN stats : stats[k].t = "int"

\* C10: a text that is accepted with whole-number STATS values gives the six
\* statistics of the parsed object, each clamped to [0, 100].
C10_Clamped ==
  [][\A r \in Req : \A text \in Responses :
       GenerateText(r, text) /\ pc'[r] # "generate" /\ AllInts(Current[text].stats) =>
         /\ pc'[r] = "cache_set"
         /\ \A k \in StatKeys :
              AnimeStats(stats_data'[r][1])[k] =
                Clamp(StatGet(Current[text].stats, k).v)]_vars

(***************************************************************************)
(* The cache (SpecCache).                                                  *)
(***************************************************************************)
\* the cache holds an entry under key that has not expired
Unexpired(key) ==
  \E i \in 1..Len(cache) :
    cache[i].key = key /\ now - cache[i].timestamp <= TTL_SECONDS

\* the data of the entry under key
EntryData(key) == cache[CHOOSE i \in 1..Len(cache) : cache[i].key = key].data

\* C4: a lookup that finds an unexpired entry under the key of the request
\* ends the request with exactly the data of that entry, and a request that
\* was served from the cache has made no generator call.
C4_CacheHit ==
  /\ [](\A r \in Req : Succeeded(r) /\ calls[r].cache_set = 0 =>
          calls[r].generate = 0)
  /\ [][\A r \in Req : CacheLookup(r) /\ Unexpired(CacheKey(r)) =>
          /\ pc'[r] = "done"
          /\ response'[r] = <<RoastResponse(EntryData(CacheKey(r)))>>
          /\ calls'[r].generate = 0]_vars

\* a request was served from the cache some time after the entry was stored
C4_Witness ==
  \E r \in Req :
    /\ Succeeded(r) /\ calls[r].generate = 0 /\ calls[r].get_at > 0
    /\ \E q \in Req : Generated(q) /\ Content(q) = Content(r)
                      /\ calls[q].set_at < calls[r].get_at

\* q arrived after r, which succeeded through generation, had returned, has
\* the key of r and looked the cache up within the TTL of the entry r stored
Later(r, q) ==
  /\ r # q
  /\ Generated(r)
  /\ Done(q)
  /\ r \in calls[q].after
  /\ calls[q].cache_get > 0
  /\ calls[q].key = calls[r].key
  /\ calls[q].get_at - calls[r].set_at <= TTL_SECONDS

\* C5 as stated: a later identical request within the TTL is served the roast
\* and stats of the earlier request without a generator call (SpecCache never
\* evicts).
C5_SameRoastLater ==
  \A r, q \in Req : Later(r, q) =>
    calls[q].generate = 0 /\ Content(q) = Content(r)

\* C5: a request that succeeds through generation stores its response data
\* under its key in the step in which it returns, nothing is evicted, and a
\* later identical request within the TTL is served, without a generator
\* call, the data stored last under the key: that of the earlier request or
\* that of a request with the same key that stored after it.
C5_StoredThenServed ==
  /\ [](Len(cache) < MAX_SIZE)
  /\ [](\A r, q \in Req : Later(r, q) =>
          /\ calls[q].generate = 0
          /\ \E p \in Req :
               /\ Generated(p)
               /\ calls[p].key = calls[r].key
               /\ p = r \/ r \in calls[p].over
               /\ Content(q) = Content(p))
  /\ [][\A r \in Req : CacheStore(r) =>
          /\ \E i \in 1..Len(cache') :
               /\ cache'[i].key = CacheKey(r)
               /\ cache'[i].data = ResponseData(r)
               /\ cache'[i].timestamp = now
          /\ response'[r] = <<RoastResponse(ResponseData(r))>>]_vars

\* a later identical request was served the data of the earlier one some
\* time after it was stored
C5_Witness ==
  \E r, q \in Req :
    /\ Later(r, q)
    /\ calls[q].get_at > calls[r].set_at
    /\ calls[q].generate = 0
    /\ Content(q) = Content(r)

(***************************************************************************)
(* The request path (SpecRequest, SpecFault).                              *)
(***************************************************************************)
\* the name fails validation: empty, longer than 100 characters, matching a
\* forbidden pattern, or containing a character that is not allowed
NameFails(raw) ==
  \/ Strip(raw) = <<>>
  \/ TextLen(Strip(raw)) > MAX_ANIME_NAME_LENGTH
  \/ MatchesForbidden(Strip(raw))
  \/ ~MatchesNamePattern(Strip(raw))

FailingNames == {n \in ValidNames \cup InvalidNames : NameFails(n)}

\* C8 as stated: a request whose name fails validation is rejected with 400
\* before any downstream work.
C8_RejectedWith400 ==
  \A r \in Req : pc[r] # "idle" /\ body[r].anime_name \in FailingNames =>
    Done(r) /\ Status(r) = 400 /\ NoDownstream(r)

\* C8: a request whose name fails validation is rejected before any
\* downstream work, with 422 by the request schema when the name is empty,
\* blank or longer than 100 characters, and with 400 by validate_anime_name
\* otherwise.
C8_RejectedBeforeWork ==
  \A r \in Req : pc[r] # "idle" /\ body[r].anime_name \in FailingNames =>
    /\ Done(r)
    /\ Content(r) = <<>>
    /\ Status(r) = IF RoastRequestValid(body[r].anime_name) THEN 400 ELSE 422
    /\ NoDownstream(r)

\* one request was rejected with 400 for a forbidden pattern and one with 422
\* for an empty name
C8_Witness ==
  \E r, q \in Req :
    /\ Done(r) /\ body[r].anime_name = NameSql /\ Status(r) = 400
    /\ Done(q) /\ pc[q] # "idle" /\ body[q].anime_name = NameEmpty
    /\ Status(q) = 422

\* C9: with a generator that answers, a request that got as far as the cache
\* lookup ends in success whatever its collaborators did.
C9_CollaboratorFailuresRecovered ==
  \A r \in Req : Done(r) /\ calls[r].cache_get > 0 =>
    Status(r) = 200 /\ Content(r) # <<>>

(***************************************************************************)
(* The statistics of a success response (Spec).                            *)
(***************************************************************************)
\* C11: every success response, generated or served from the cache, carries
\* exactly the six statistics keys, each a whole number within [0, 100], and
\* a response that is built from a parsed STATS object gives every key that
\* the object lacks the value 50.
C11_SixStatsInRange ==
  /\ [](\A r \in Req : Succeeded(r) =>
          /\ DOMAIN Content(r)[1].stats = StatKeys
          /\ \A k \in StatKeys :
               Content(r)[1].stats[k] \in STAT_MIN..STAT_MAX)
  /\ [][\A r \in Req : CacheStore(r) =>
          \A k \in StatKeys :
            response'[r][1].content[1].stats[k] =
              IF k \in DOMAIN stats_data[r][1]
                THEN stats_data[r][1][k].v ELSE DEFAULT_STAT]_vars

\* a request was served from the cache the statistics of a STATS object that
\* had one key only: that key's value and 50 for the five others
C11_Witness ==
  \E r, q \in Req :
    /\ Generated(q)
    /\ Succeeded(r) /\ calls[r].cache_set = 0 /\ calls[r].generate = 0
    /\ Content(r)[1].stats =
         [k \in StatKeys |-> IF k = "power_creep" THEN 4 ELSE DEFAULT_STAT]

(***************************************************************************)
(* The roast of a generated response (SpecScored).                         *)
(***************************************************************************)
\* C12: the roast that a request with a known real score stores and returns
\* after generation contains no N/10 rating more than 1.0 away from that
\* score.
C12_NoFakeRatingReturned ==
  [][\A r \in Req : CacheStore(r) /\ anime_data[r] # <<>> =>
       _check_fake_ratings(response'[r][1].content[1].roast,
                           <<anime_data[r][1].score>>) = <<>>]_vars

(***************************************************************************)
(* The generator calls of one request (SpecThreads).                       *)
(***************************************************************************)
\* the generator calls of r that the handler is waiting for
Awaited(r) == calls[r].running - calls[r].abandoned

\* C13 as stated: a request never has two generator calls in progress at the
\* same time.
C13_OneCallInProgress == \A r \in Req : calls[r].running <= 1

\* C13: the handler waits for at most one generator call at a time; it
\* issues a call only when it waits for none and every earlier call of the
\* request has returned or timed out; the prompt does not change while the
\* handler waits nor when the call is issued, so the prompt of attempt k+1 is
\* set in the step that ends the wait for attempt k; the calls in progress
\* besides the awaited one are calls whose timeout has fired, at most one per
\* earlier attempt.
C13_SequentialRetries ==
  /\ [](\A r \in Req :
          /\ Awaited(r) = (IF pc[r] = "waiting" THEN 1 ELSE 0)
          /\ calls[r].abandoned >= 0
          /\ calls[r].abandoned <= MAX_ROAST_RETRIES + 1
          /\ calls[r].running <= calls[r].generate)
  /\ [][\A r \in Req :
          /\ GenerateCall(r) =>
               /\ Awaited(r) = 0
               /\ calls[r].generate = attempt[r]
               /\ prompt'[r] = prompt[r]
               /\ Awaited(r)' = 1
          /\ pc[r] = "waiting" /\ pc'[r] = "waiting" => prompt'[r] = prompt[r]
          /\ calls'[r].abandoned > calls[r].abandoned =>
               GenerateTimeout(r) /\ Awaited(r)' = 0]_vars

\* the second attempt is awaited while the call of the first attempt, whose
\* timeout has fired, is still running
C13_Witness ==
  \E r \in Req :
    /\ pc[r] = "waiting" /\ attempt[r] = 1
    /\ calls[r].running = 2 /\ calls[r].abandoned = 1

(***************************************************************************)
(* The cache operations of concurrent requests (SpecOps).                  *)
(***************************************************************************)
\* p made the latest completed set under key
LatestSet(p, key) ==
  /\ calls[p].cache_set = 1
  /\ calls[p].key = <<key>>
  /\ \A q \in Req \ {p} :
       calls[q].cache_set = 1 /\ calls[q].key = <<key>> => q \in calls[p].over

\* C14: under every interleaving of the get and set of concurrent requests
\* with delete and clear, the dict holds at most one entry per key, each
\* entry holds whole the value passed to the latest completed set for its
\* key, and a get that returns a value returns exactly that value.
C14_GetReturnsLatestSet ==
  /\ [](\A i, j \in 1..Len(cache) : cache[i].key = cache[j].key => i = j)
  /\ [](\A i \in 1..Len(cache) : \E p \in Req :
          /\ LatestSet(p, cache[i].key)
          /\ <<cache[i].data>> = Content(p))
  /\ [][\A r \in Req : CacheLookup(r) /\ pc'[r] = "done" =>
          \E p \in Req \ {r} :
            /\ LatestSet(p, CacheKey(r))
            /\ response'[r][1].content = Content(p)]_vars

\* the entry of a request was removed, so that a later identical request
\* found nothing and generated another roast, which a third request then got
C14_Witness ==
  \E p, q, r \in Req :
    /\ Generated(p) /\ Generated(q) /\ p \in calls[q].after
    /\ calls[q].key = calls[p].key /\ Content(q) # Content(p)
    /\ Succeeded(r) /\ calls[r].generate = 0 /\ q \in calls[r].after
    /\ calls[r].key = calls[q].key /\ Content(r) = Content(q)

(***************************************************************************)
(* The review analyzer (SpecAnalyzer).                                     *)
(***************************************************************************)
\* the function op has been called
Called(op) == given # <<>> /\ given[1].op = op

\* the number of positive and of negative indicators of the category that
\* occur in the text
PosCount(text, category) ==
  CountIn(CRITICISM_PATTERNS[category].positive_indicators, Lower(text))

NegCount(text, category) ==
  CountIn(CRITICISM_PATTERNS[category].negative_indicators, Lower(text))

\* the text has an opinion marker
HasMarker(text) == CountIn(GENUINE_SENTIMENT_MARKERS, Lower(text)) > 0

MajorityConfidence(pos, neg) ==
  Rat(pos + neg + (IF pos > neg THEN pos ELSE neg), 2 * (pos + neg))

\* the confidence after the opinion-marker bonus, when the text has a marker
WithBonus(text, confidence) ==
  IF HasMarker(text) THEN RatMin(RatAdd(confidence, Rat(1, 10)), Rat(1, 1))
  ELSE confidence

\* C17 as stated: whenever an indicator occurs, the confidence before the
\* bonus is min(0.5 + (majority_count / total_indicator_count) * 0.5, 1.0),
\* in the negative, the positive and the mixed case.
C17_MajorityFormula ==
  Called("analyze_sentiment_with_context") =>
    LET text == given[1].args.text
        pos == PosCount(text, given[1].args.category)
        neg == NegCount(text, given[1].args.category)
    IN pos + neg > 0 =>
         RatEq(returned[1].confidence,
               WithBonus(text, RatMin(MajorityConfidence(pos, neg), Rat(1, 1))))

\* C17: whenever an indicator occurs, the sentiment is negative, positive or
\* mixed as neg > pos, pos > neg or pos = neg; the confidence before the
\* bonus is min(0.5 + (majority_count / total_indicator_count) * 0.5, 1.0) in
\* the negative and the positive case and 0.5 in the mixed case.
C17_MajorityOrHalf ==
  Called("analyze_sentiment_with_context") =>
    LET text == given[1].args.text
        pos == PosCount(text, given[1].args.category)
        neg == NegCount(text, given[1].args.category)
    IN pos + neg > 0 =>
         /\ returned[1].sentiment =
              (IF neg > pos THEN "negative"
               ELSE IF pos > neg THEN "positive" ELSE "mixed")
         /\ RatEq(returned[1].confidence,
                  WithBonus(text,
                    IF pos = neg THEN Rat(1, 2)
                    ELSE RatMin(MajorityConfidence(pos, neg), Rat(1, 1))))

\* a sentence without opinion marker in which one positive and one negative
\* indicator occur got mixed with confidence 0.5
C17_Witness ==
  /\ Called("analyze_sentiment_with_context")
  /\ ~HasMarker(given[1].args.text)
  /\ PosCount(given[1].args.text, given[1].args.category) = 1
  /\ NegCount(given[1].args.text, given[1].args.category) = 1
  /\ returned[1].sentiment = "mixed"
  /\ RatEq(returned[1].confidence, Rat(1, 2))

\* the stripped sentence has a length within [15, 200] and contains a keyword
\* phrase of the category, case-insensitively
Eligible(sentence, category) ==
  /\ TextLen(sentence) >= MIN_SENTENCE_LENGTH
  /\ TextLen(sentence) <= MAX_SENTENCE_LENGTH
  /\ \E k \in 1..Len(CRITICISM_PATTERNS[category].keywords) :
       Contains(CRITICISM_PATTERNS[category].keywords[k], Lower(sentence))

\* C18: extract_specific_complaint returns the first sentence of the text
\* whose trimmed length is within [15, 200] and which contains a keyword
\* phrase of the category, of one word or of several, and returns none only
\* when the text has no such sentence.
C18_FirstKeywordSentence ==
  Called("extract_specific_complaint") =>
    LET sentences == SplitSentences(given[1].args.text)
        category == given[1].args.category
        hits == {i \in 1..Len(sentences) : Eligible(Strip(sentences[i]), category)}
    IN IF hits = {} THEN returned[1] = <<>>
       ELSE returned[1] =
              <<Strip(sentences[CHOOSE i \in hits : \A j \in hits : i <= j])>>

\* the review has a text whose complaint for the category is negative or
\* mixed with a confidence of at least the threshold
Contributes(review, category) ==
  /\ ReviewText(review) # <<>>
  /\ LET complaint_text == extract_specific_complaint(ReviewText(review), category)
     IN /\ complaint_text # <<>>
        /\ LET analysis == analyze_sentiment_with_context(complaint_text[1], category)
           IN /\ analysis.sentiment \in {"negative", "mixed"}
              /\ RatLeq(MIN_CONFIDENCE, analysis.confidence)

\* the number of reviews of the list that contribute to the category
Contributing(reviews, category) ==
  Cardinality({i \in 1..Len(reviews) : Contributes(reviews[i], category)})

\* C15: every complaint that identify_verified_criticisms returns has a
\* review_count of at least 2, and review_count is the number of reviews of
\* the list with a complaint for the category that is negative or mixed with
\* a confidence of at least the threshold; a category with one such review is
\* never returned.
C15_AtLeastTwoReviews ==
  Called("identify_verified_criticisms") =>
    LET reviews == given[1].args.reviews
        result == returned[1]
    IN /\ \A j \in 1..Len(result) :
            /\ result[j].review_count >= 2
            /\ result[j].review_count = Contributing(reviews, result[j].category)
       /\ \A category \in CategorySet :
            Contributing(reviews, category) = 1 =>
              \A j \in 1..Len(result) : result[j].category # category

\* a list with two contributing reviews for one category and one for
\* another: the first is returned and the second is not
C15_Witness ==
  /\ Called("identify_verified_criticisms")
  /\ Contributing(given[1].args.reviews, "pacing") = 2
  /\ Contributing(given[1].args.reviews, "plot") = 1
  /\ Len(returned[1]) = 1
  /\ returned[1][1].category = "pacing"
  /\ returned[1][1].review_count = 2

\* the class of a review: by the rating alone when it has one, by the word
\* lists of its text when it has none
ReviewClass(review) ==
  IF review.rating # <<>>
  THEN (IF review.rating[1] >= 6 THEN "positive"
        ELSE IF review.rating[1] >= 4 THEN "mixed" ELSE "negative")
  ELSE LET text_lower == Lower(ReviewText(review))
           neg == CountIn(negative_words, text_lower)
           pos == CountIn(positive_words, text_lower)
       IN IF pos > neg THEN "positive" ELSE IF neg > pos THEN "negative" ELSE "mixed"

\* the number of reviews of the list in the class
InClass(reviews, class) ==
  Cardinality({i \in 1..Len(reviews) : ReviewClass(reviews[i]) = class})

\* C19: in the sentiment breakdown a review with a rating from 0 to 10 is
\* counted by the rating alone (6 and more positive, 4 and 5 mixed, less than
\* 4, 0 included, negative); the words of the text decide only for a review
\* without rating.
C19_RatingAlone ==
  Called("calculate_sentiment_breakdown") =>
    LET reviews == given[1].args.reviews
    IN /\ returned[1].positive = InClass(reviews, "positive")
       /\ returned[1].mixed = InClass(reviews, "mixed")
       /\ returned[1].negative = InClass(reviews, "negative")

(***************************************************************************)
(* The context builder (SpecAnalyzer).                                     *)
(***************************************************************************)
\* the line is the quote of an example of the complaint
QuoteOf(line, complaint) ==
  \E e \in 1..Len(complaint.examples) :
    line = <<"  \"">> \o complaint.examples[e] \o <<"\"">>

\* the line comes from the verified complaints: the header of the themes,
\* the title of a complaint or the quote of an example
ComplaintDerived(line, complaints) ==
  \/ line = <<"=== COMMON THEMES IN REVIEWS ===">>
  \/ \E i \in 1..Len(complaints) :
       \/ line = <<CategoryTitle[complaints[i].category], ":">>
       \/ QuoteOf(line, complaints[i])

\* the context string has the header of the themes
HasThemes(context) ==
  \E i \in 1..Len(context) : context[i] = <<"=== COMMON THEMES IN REVIEWS ===">>

\* the review context is there and its review_count is at least 10
EnoughReviews(review_context) ==
  review_context # <<>> /\ review_context[1].review_count >= 10

\* C20 as stated: build_context includes the themes section if and only if
\* a review context with review_count >= 10 is supplied.
C20_ThemesIffEnoughReviews ==
  Called("build_context") =>
    (HasThemes(returned[1]) <=> EnoughReviews(given[1].args.review_context))

\* C20: build_context includes the themes section if and only if a review
\* context with review_count >= 10 and at least one verified complaint is
\* supplied, and then it quotes one example of each of the first 4 complaints
\* that have examples; with review_count < 10 no line of the context comes
\* from the complaints, however many the review context carries.
C20_ThemesIffEnoughReviewsAndComplaints ==
  Called("build_context") =>
    LET review_context == given[1].args.review_context
        context == returned[1]
    IN /\ HasThemes(context) <=>
            /\ EnoughReviews(review_context)
            /\ review_context[1].verified_complaints # <<>>
       /\ EnoughReviews(review_context) =>
            \A i \in 1..Len(review_context[1].verified_complaints) :
              LET complaint == review_context[1].verified_complaints[i]
              IN (i <= 4 /\ complaint.examples # <<>>) =>
                   \E k \in 1..Len(context) : QuoteOf(context[k], complaint)
       /\ (review_context # <<>> /\ ~EnoughReviews(review_context)) =>
            \A k \in 1..Len(context) :
              ~ComplaintDerived(context[k], review_context[1].verified_complaints)

\* a review context with review_count 10 and a complaint with examples: the
\* context has the header and a quote of the complaint
C20_Witness ==
  /\ Called("build_context")
  /\ given[1].args.review_context # <<>>
  /\ given[1].args.review_context[1].review_count = 10
  /\ given[1].args.review_context[1].verified_complaints # <<>>
  /\ given[1].args.review_context[1].verified_complaints[1].examples # <<>>
  /\ HasThemes(returned[1])
  /\ \E k \in 1..Len(returned[1]) :
       QuoteOf(returned[1][k], given[1].args.review_context[1].verified_complaints[1])

(***************************************************************************)
(* The functions on the generated text (SpecText).                         *)
(***************************************************************************)
\* C21: clean_roast is idempotent: cleaning the text that clean_roast has
\* returned returns that text unchanged.
C21_CleanIdempotent ==
  (Called("clean_roast") /\ given[1].args.origin # <<>>) =>
    returned[1] = given[1].args.text

\* C22: has_statistics is false on the text that clean_roast returns for
\* every input whose statistics are percentages, decimal scores out of 10
\* and review counts only.
C22_CleanDefeatsDetector ==
  (Called("has_statistics") /\ given[1].args.origin[1] \in CoveredTexts) =>
    returned[1] = FALSE

RealScoreText(score) ==
  CASE score = 51 -> <<"5", ".", "1", "/", "10">>
    [] score = 73 -> <<"7", ".", "3", "/", "10">>
    [] score = 100 -> <<"10", ".", "0", "/", "10">>

RECURSIVE PartsRewritten(_, _)
\* the ratings of the parts replaced by the lexemes repl
PartsRewritten(parts, repl) ==
  IF parts = <<>> THEN <<>>
  ELSE Head(parts).lead.lex \o repl \o PartsRewritten(Tail(parts), repl)

RECURSIVE PartsStripped(_)
\* the ratings of the parts removed with the whitespace before them
PartsStripped(parts) ==
  IF parts = <<>> THEN <<>>
  ELSE Head(parts).lead.bare \o PartsStripped(Tail(parts))

IsRatingIssue(issue) == issue.kind \in {"FAKE RATING", "SUSPICIOUS RATING"}

\* the rating that an issue reports, in tenths
IssueTenths(issue) ==
  10 * issue.of[1].whole + (IF issue.of[1].digits = 1 THEN issue.of[1].frac ELSE 0)

\* the token is more than 1.0 away from score / 10
FarFrom(token, score) ==
  token.tenths - score > 10 \/ score - token.tenths > 10

\* C24: validate_and_fix_roast compares every N/10 or N.N/10 token of the
\* roast with the real score / 10.  With a known score and a token more than
\* 1.0 away from it, one FAKE RATING issue is reported for each such token
\* and every rating token is rewritten to the real score with one decimal;
\* without a real score, a SUSPICIOUS RATING issue is reported for each
\* token and the tokens are removed; with a known score and every token
\* within 1.0 of it, no rating issue is reported and the ratings of the text
\* are unchanged.
C24_RatingsChecked ==
  Called("validate_and_fix_roast") =>
    LET args == given[1].args
        case == CHOOSE c \in ValidatorCases : c.text = args.text
        known == args.score # <<>> /\ args.score[1] # 0
        tokens == [k \in 1..Len(case.parts) |-> case.parts[k].token]
        far == {k \in 1..Len(tokens) : known /\ FarFrom(tokens[k], args.score[1])}
        issues == SelectSeq(returned[1].issues, IsRatingIssue)
        tail == IF args.context # <<>> /\ case.tail.pacing
                   /\ "pacing" \notin args.context[1]
                  THEN case.tail.soft ELSE case.tail.lex
    IN IF known /\ far # {}
         THEN /\ Len(issues) = Cardinality(far)
              /\ \A k \in 1..Len(issues) :
                   /\ issues[k].kind = "FAKE RATING"
                   /\ \E j \in far : IssueTenths(issues[k]) = tokens[j].tenths
              /\ \A j \in far :
                   \E k \in 1..Len(issues) : IssueTenths(issues[k]) = tokens[j].tenths
              /\ returned[1].roast =
                   PartsRewritten(case.parts, RealScoreText(args.score[1])) \o tail
       ELSE IF ~known /\ tokens # <<>>
         THEN /\ Len(issues) = Len(tokens)
              /\ \A k \in 1..Len(issues) :
                   /\ issues[k].kind = "SUSPICIOUS RATING"
                   /\ IssueTenths(issues[k]) = tokens[k].tenths
              /\ returned[1].roast = PartsStripped(case.parts) \o tail
       ELSE /\ issues = <<>>
            /\ returned[1].roast = PartsText(case.parts) \o tail

(***************************************************************************)
(* One TimedCache under get, set, delete and clear (SpecLru).              *)
(***************************************************************************)
\* C25: after any sequence of get, set, delete and clear on a TimedCache
\* with max_size >= 1, the number of stored entries never exceeds max_size.
C25_SizeWithinMax == Len(cache) <= Capacity

\* a set on the full cache has evicted an entry and the cache is full again
C25_Witness == LastCall.evicted # {} /\ Len(cache) = Capacity

\* C26: get(key) returns None for a key that is not stored; for an entry
\* set more than ttl_seconds earlier it returns None and removes the entry;
\* for a live entry it returns the stored data and leaves the entry with its
\* data and its timestamp.
C26_GetWithinTtl ==
  [][\A key \in LruKeys : get(key) =>
       LET i == KeyIndex(cache, key, 1)
       IN IF i = 0 THEN returned' = <<<<>>>>
          ELSE IF now - cache[i].timestamp > TTL_SECONDS
            THEN returned' = <<<<>>>> /\ key \notin KeysOf(cache')
          ELSE /\ returned' = <<<<cache[i].data>>>>
               /\ \E j \in 1..Len(cache') :
                    /\ cache'[j].key = key
                    /\ cache'[j].timestamp = cache[i].timestamp
                    /\ cache'[j].data = cache[i].data]_vars

\* a get has returned the data of an entry that is exactly ttl_seconds old
C26_Witness ==
  /\ returned = <<<<1>>>>
  /\ \E i \in 1..Len(cache) :
       /\ cache[i].data = 1 /\ cache[i].access_count = 1
       /\ cache[i].timestamp = 1 /\ now = 1 + TTL_SECONDS

\* C27: a set on a TimedCache that is at capacity evicts the least recently
\* used entry: no stored entry has its latest get or set further in the
\* past than the evicted one.
C27_EvictsLeastRecentlyUsed ==
  [][\A key \in LruKeys :
       set(key, now) /\ Len(cache) >= Capacity =>
         \A k \in LastCall.evicted' :
           \A j \in 1..Len(cache) :
             LastCall.used[k] <= LastCall.used[cache[j].key]]_vars

(***************************************************************************)
(* The votes on comments (SpecVotes).                                      *)
(***************************************************************************)
\* the vote rows of the comment with the vote type
VoteRows(comment_id, vote_type) ==
  {i \in 1..Len(comment_votes) :
     /\ comment_votes[i].comment_id = comment_id
     /\ comment_votes[i].vote_type = vote_type}

\* C28: after any sequence of vote requests executed one at a time, the
\* counters of every comment agree with the vote rows: upvotes is the number
\* of rows of type 1, downvotes the number of rows of type -1, score their
\* difference, no counter is negative, there is at most one row for each
\* comment and voter; a vote of the author of the comment is rejected and
\* changes nothing.
C28_CountersMatchVotes ==
  /\ [](\A id \in CommentIds :
          /\ comments[id].upvotes = Cardinality(VoteRows(id, 1))
          /\ comments[id].downvotes = Cardinality(VoteRows(id, -1))
          /\ comments[id].score = comments[id].upvotes - comments[id].downvotes
          /\ comments[id].upvotes >= 0 /\ comments[id].downvotes >= 0)
  /\ [](\A i, j \in 1..Len(comment_votes) :
          /\ comment_votes[i].vote_type \in {-1, 1}
          /\ (/\ comment_votes[i].comment_id = comment_votes[j].comment_id
              /\ comment_votes[i].ip_hash = comment_votes[j].ip_hash) => i = j)
  /\ [][\A id \in CommentIds, vote_type \in {-1, 0, 1} :
          vote_comment(id, AuthorOf(id), vote_type) =>
            /\ returned' = <<[status |-> 403]>>
            /\ UNCHANGED <<comments, comment_votes>>]_vars

\* a comment with one upvote and one downvote, the downvote switched from an
\* upvote, after its author tried to vote
C28_Witness ==
  /\ given # <<>> /\ given[1].op = "vote_comment"
  /\ given[1].args.comment_id = 1 /\ given[1].args.ip_hash = AuthorOf(1)
  /\ returned = <<[status |-> 403]>>
  /\ comments[1].upvotes = 1 /\ comments[1].downvotes = 1
  /\ \E i, j \in 1..Len(comment_votes) :
       /\ i < j
       /\ comment_votes[i].comment_id = 1 /\ comment_votes[i].vote_type = -1
       /\ comment_votes[j].comment_id = 1 /\ comment_votes[j].vote_type = 1
       /\ comment_votes[i].ip_hash = "ip2"

(***************************************************************************)
(* The cache and the requests that fail (SpecFailure).                     *)
(***************************************************************************)
\* the entries of the dict c that have not expired at time t, in their order
LiveEntries(c, t) == SelectSeq(c, LAMBDA e : ~IsExpired(e, t, TTL_SECONDS))

\* the step ends the request of r with a failure
Fails(r) == pc[r] # "done" /\ pc'[r] = "done" /\ response'[r][1].status # 200

\* the step ends the request of r with the success response
Succeeds(r) == pc[r] # "done" /\ pc'[r] = "done" /\ response'[r][1].status = 200

\* C29: a request that ends in a failure leaves the contents of the response
\* cache unchanged.  The cache is written only by the set of the success
\* path, which runs at most once in a request, after AnimeStats has validated
\* the stats, and ends the request with the success response; the step
\* in which a request fails leaves the dict as it is, and every step that
\* does not end a request with success adds no entry and changes no entry
\* that is still alive (the lookup of a request, whatever becomes of the
\* request later, drops the entries that have expired).
C29_FailureLeavesCache ==
  /\ [][\A r \in Req : CacheStore(r) =>
          /\ stats_data[r] # <<>> /\ AnimeStatsValid(stats_data[r][1])
          /\ calls[r].text > 0
          /\ calls[r].cache_set = 0
          /\ Succeeds(r)]_vars
  /\ [][\A r \in Req : Fails(r) => cache' = cache]_vars
  /\ [][(\E r \in Req : Succeeds(r))
          \/ LiveEntries(cache', now') = LiveEntries(cache, now')]_vars
  /\ [](\A r \in Req : Done(r) /\ Status(r) # 200 =>
          /\ calls[r].cache_set <= 1
          /\ calls[r].cache_set = 1 => response[r][1].error = "cache error")

\* a request whose generator answered with stats that AnimeStats refuses has
\* failed after another request stored its roast, and the cache holds that
\* one entry
C29_Witness ==
  \E r, q \in Req :
    /\ Generated(q) /\ q \in calls[r].after
    /\ Done(r) /\ Status(r) = 500
    /\ response[r][1].error = "ValidationError"
    /\ calls[r].cache_get = 1 /\ calls[r].cache_set = 0
    /\ Len(cache) = 1 /\ cache[1].key = calls[q].key[1]
    /\ calls[r].key # calls[q].key

(***************************************************************************)
(* Termination of a request (SpecLive).                                    *)
(***************************************************************************)
\* the detail of the HTTPException raised after the loop when roast_text is
\* still None
AfterLoopDetail == "Failed to generate a valid roast after multiple attempts"

====
